---- MODULE Spec2Model ----
(***************************************************************************)
(* TMSLabs/go-tooling: telemetry options, Init and its shutdown callback,  *)
(* the liveness heartbeat and the /healthz endpoint.                       *)
(*                                                                         *)
(* Strings of the program are TLA+ strings; a value that the program       *)
(* formats or compares as text (a timestamp, a response body) is a         *)
(* sequence, so that prefix, containment and lexicographic order are       *)
(* computed and not assumed.                                               *)
(***************************************************************************)
EXTENDS Integers, Sequences, FiniteSets, TLC

VARIABLES
    \* ---- option folding (telemetry/options.go) ----
    applied,              \* the options applied so far to draft, in order
    draft,                \* the config being assembled: cfg := &config{}; opt(cfg)...
    \* ---- Init and the shutdown callback (telemetry/telemetry.go) ----
    TelemetryConfig,      \* var TelemetryConfig = config{}
    initCalls,            \* number of Init calls made so far
    initArgs,             \* the latest Init call: its arguments and what the
                          \* outside world answered to it
    initLog,              \* the steps the latest Init call performed, in order
    initErr,              \* the error the latest Init call returned ("nil" for nil)
    shutdown,             \* the ShutdownFunc the latest Init call returned
    shutdownCalls,        \* invocations of that ShutdownFunc so far
    slogDefault,          \* level of the logger installed by slog.SetDefault
    sentryClient,         \* options of the client bound by sentry.Init
    sentryFlushes,        \* number of sentry.Flush calls made
    otelProvider,         \* the provider registered by otel.SetTracerProvider
    otelPropagator,       \* the propagator registered by otel.SetTextMapPropagator
    tpState,              \* the TracerProvider initTelemetry returned to the latest Init
    natsConns,            \* connections opened by Init's nats.Connect, never closed
    \* ---- heartbeat and health endpoint ----
    checkers,             \* one entry per go HealthzEventChecker(nc, serviceName)
    inflight,             \* liveness messages published and not yet delivered
    LastHealthCheckEvent, \* var LastHealthCheckEvent = ""
    now,                  \* the clock, in ticks
    advances,             \* number of clock advances made
    req,                  \* the latest /healthz request: its method, when it
                          \* was served and what the database and the bus
                          \* answer to a probe made while it is served
    w,                    \* the ResponseWriter (httptest recorder) of that request
    \* ---- instrumentation wrappers ----
    effects,              \* the calls made on the Sentry hub, on spans and on
                          \* slog by CaptureError, in order, with what they carry
    captured,             \* the latest CaptureError call: its number and arguments
    wrapped,              \* what the handler HTTPHandler returned closes over
    calls,                \* the calls of that handler and of HTTPDo in progress
    dbCall,               \* the latest call of mysqlhelper.Connect or
                          \* CheckConnection: its arguments and what it returned
    handles,              \* database handles returned by Connect and not closed
    inits,                \* the goroutines that called Init concurrently
    namespaceFile,        \* the service account's namespace file
    k8sCall,              \* the latest call of k8shelper.GetEnvironment
    subs,                 \* the subscriptions made by natshelper.Subscribe
                          \* and QueueSubscribe
    busCalls              \* the calls of natshelper.Publish and PublishMsg and
                          \* of the subscriptions' callbacks in progress

optVars == <<applied, draft>>

initVars ==
    <<TelemetryConfig, initCalls, initArgs, initLog, initErr, shutdown,
      shutdownCalls, slogDefault, sentryClient, sentryFlushes, otelProvider,
      otelPropagator, tpState, natsConns, checkers>>

healthVars == <<inflight, LastHealthCheckEvent, now, advances, req, w>>

captureVars == <<effects, captured>>

httpVars == <<wrapped, calls>>

dbVars == <<dbCall, handles>>

concVars == <<inits>>

k8sVars == <<namespaceFile, k8sCall>>

natsVars == <<subs, busCalls>>

libVars == <<captureVars, httpVars, dbVars, concVars, k8sVars, natsVars>>

vars == <<optVars, initVars, healthVars, libVars>>

----------------------------------------------------------------------------
(* Bounds of the model.                                                    *)

\* longest list of options folded in SpecOptions
MaxOpts == 2
\* longest list of sub-options inside one With... option in SpecOptions
MaxSubs == 2

----------------------------------------------------------------------------
(* Configuration model: telemetry/options.go                               *)

\* slog.Level values: LevelDebug = -4, LevelInfo = 0 (the zero value)
LevelInfo == 0
LevelDebug == 0 - 4

ZeroSlogConfig == [logLevel |-> LevelInfo]
ZeroSentryConfig == [DSN |-> "", Environment |-> "", Release |-> ""]
ZeroTraceConfig == [ExporterURL |-> ""]
ZeroMySQLConfig == [DSN |-> ""]
ZeroNatsConfig == [URL |-> ""]

\* config{}: every flag false, every nested config zero
ZeroConfig ==
    [ServiceName   |-> "",
     Environment   |-> "",
     MysqlConfig   |-> ZeroMySQLConfig,
     MysqlEnabled  |-> FALSE,
     NatsConfig    |-> ZeroNatsConfig,
     NatsEnabled   |-> FALSE,
     SentryConfig  |-> ZeroSentryConfig,
     SentryEnabled |-> FALSE,
     SlogConfig    |-> ZeroSlogConfig,
     SlogEnabled   |-> FALSE,
     TraceConfig   |-> ZeroTraceConfig,
     TraceEnabled  |-> FALSE]

\* A sub-option is the field it assigns and the value: func(cfg) { cfg.F = v }
SlogLogLevel(level) == [field |-> "logLevel", value |-> level]
SentryDSN(dsn) == [field |-> "DSN", value |-> dsn]
SentryEnvironment(env) == [field |-> "Environment", value |-> env]
SentryRelease(rel) == [field |-> "Release", value |-> rel]
TraceExporterURL(url) == [field |-> "ExporterURL", value |-> url]
MySQLDSN(dsn) == [field |-> "DSN", value |-> dsn]
NATSURL(url) == [field |-> "URL", value |-> url]

\* for _, opt := range opts { opt(&sc) }
RECURSIVE ApplySubOptions(_, _)
ApplySubOptions(sc, opts) ==
    IF opts = <<>> THEN sc
    ELSE ApplySubOptions([sc EXCEPT ![Head(opts).field] = Head(opts).value],
                         Tail(opts))

\* The closure each With... returns, applied to cfg.
MutWithSentryMerging(cfg, opts) ==
    [cfg EXCEPT !.SentryEnabled = TRUE,
                !.SentryConfig = ApplySubOptions(cfg.SentryConfig, opts)]

WithSlog(cfg, opts) ==
    [cfg EXCEPT !.SlogEnabled = TRUE,
                !.SlogConfig = ApplySubOptions(ZeroSlogConfig, opts)]

WithSentry(cfg, opts) ==
    [cfg EXCEPT !.SentryEnabled = TRUE,
                !.SentryConfig = ApplySubOptions(ZeroSentryConfig, opts)]

WithTrace(cfg, opts) ==
    [cfg EXCEPT !.TraceEnabled = TRUE,
                !.TraceConfig = ApplySubOptions(ZeroTraceConfig, opts)]

WithMySQL(cfg, opts) ==
    [cfg EXCEPT !.MysqlEnabled = TRUE,
                !.MysqlConfig = ApplySubOptions(ZeroMySQLConfig, opts)]

WithNATS(cfg, opts) ==
    [cfg EXCEPT !.NatsEnabled = TRUE,
                !.NatsConfig = ApplySubOptions(ZeroNatsConfig, opts)]

\* An Option value: which With... built it and from which sub-options.
Opt(kind, opts) == [kind |-> kind, opts |-> opts]

\* opt(cfg)
ApplyOption(cfg, opt) ==
    CASE opt.kind = "WithSlog"   -> WithSlog(cfg, opt.opts)
      [] opt.kind = "WithSentry" -> WithSentry(cfg, opt.opts)
      [] opt.kind = "WithTrace"  -> WithTrace(cfg, opt.opts)
      [] opt.kind = "WithMySQL"  -> WithMySQL(cfg, opt.opts)
      [] opt.kind = "WithNATS"   -> WithNATS(cfg, opt.opts)

\* cfg := &config{}; for _, opt := range opts { opt(cfg) }
RECURSIVE ApplyOptions(_, _)
ApplyOptions(cfg, opts) ==
    IF opts = <<>> THEN cfg
    ELSE ApplyOptions(ApplyOption(cfg, Head(opts)), Tail(opts))

----------------------------------------------------------------------------
(* Inputs of SpecOptions.                                                  *)

SeqsUpTo(S, n) == UNION {[1..k -> S] : k \in 0..n}

SubUniverse(kind) ==
    CASE kind = "WithSlog"   -> {SlogLogLevel(LevelDebug)}
      [] kind = "WithSentry" -> {SentryDSN("d1"), SentryDSN("d2"),
                                 SentryEnvironment("e1")}
      [] kind = "WithTrace"  -> {TraceExporterURL("x1")}
      [] kind = "WithMySQL"  -> {MySQLDSN("m1")}
      [] kind = "WithNATS"   -> {NATSURL("n1")}

Kinds == {"WithSlog", "WithSentry", "WithTrace", "WithMySQL", "WithNATS"}

OptionUniverse ==
    UNION {{Opt(k, s) : s \in SeqsUpTo(SubUniverse(k), MaxSubs)} : k \in Kinds}

----------------------------------------------------------------------------
(* Init: telemetry/telemetry.go                                            *)

\* most Init calls made in one behaviour of SpecInit
MaxInits == 1
\* most invocations of one returned ShutdownFunc
MaxShutdownCalls == 2

\* What the outside world answers to one Init call: whether nats.Connect,
\* sentry.Init and otlptracegrpc.New succeed when they are called.
Outcomes == [nats : BOOLEAN, sentry : BOOLEAN, trace : BOOLEAN]

NoError == "nil"
ErrNatsURL == "nats URL is required but not set"
ErrNatsConnect == "nats connection failed: connect error"
ErrSentryDSN == "sentry DSN is required but not set"
ErrSentryInit == "sentry.Init error"
ErrExporterURL == "OpenTelemetry Exporter URL is required but not set"
ErrExporter == "otlptracegrpc.New error"

\* "go HealthzEventChecker(nc, serviceName)" with the loop entered at once
MutNewCheckerPublishesFirst(serviceName) ==
    [pc |-> "publish", subject |-> serviceName, subscribed |-> FALSE, wake |-> 0]

\* A goroutine started by "go HealthzEventChecker(nc, serviceName)", at its
\* first statement.
NewChecker(serviceName) ==
    [pc |-> "subscribe", subject |-> serviceName, subscribed |-> FALSE, wake |-> 0]

Logged(r, event) == [r EXCEPT !.log = Append(r.log, event)]

\* return nil, err
ReturnErr(r, err) == [r EXCEPT !.returned = TRUE, !.tp = "nil", !.err = err]

\* cfg := &config{}; opts applied; cfg.ServiceName, cfg.Environment set;
\* TelemetryConfig = *cfg
MutConfigureKeepGlobal(r, serviceName, environment, opts) ==
    LET cfg == [ApplyOptions(ZeroConfig, opts)
                  EXCEPT !.ServiceName = serviceName, !.Environment = environment]
    IN  [r EXCEPT !.cfg = cfg]

Configure(r, serviceName, environment, opts) ==
    LET cfg == [ApplyOptions(ZeroConfig, opts)
                  EXCEPT !.ServiceName = serviceName, !.Environment = environment]
    IN  Logged([r EXCEPT !.cfg = cfg, !.TelemetryConfig = cfg], "TelemetryConfig=")

\* --- NATS init ---
MutNatsInitNoURLCheck(r, ok) ==
    IF r.cfg.NatsEnabled
    THEN IF ~ok
         THEN ReturnErr(Logged(r, "nats.Connect"), ErrNatsConnect)
         ELSE [Logged(Logged(r, "nats.Connect"), "go HealthzEventChecker")
                 EXCEPT !.natsConns = @ + 1,
                        !.checkers = Append(@, NewChecker(r.cfg.ServiceName))]
    ELSE r

\* NATS init with the connection and the loop of the last call only
MutNatsInitReplacesEarlier(r, ok) ==
    IF r.cfg.NatsEnabled
    THEN IF r.cfg.NatsConfig.URL = ""
         THEN ReturnErr(r, ErrNatsURL)
         ELSE IF ~ok
              THEN ReturnErr(Logged(r, "nats.Connect"), ErrNatsConnect)
              ELSE [Logged(Logged(r, "nats.Connect"), "go HealthzEventChecker")
                      EXCEPT !.natsConns = 1,
                             !.checkers = <<NewChecker(r.cfg.ServiceName)>>]
    ELSE r

NatsInit(r, ok) ==
    IF r.cfg.NatsEnabled
    THEN IF r.cfg.NatsConfig.URL = ""
         THEN ReturnErr(r, ErrNatsURL)
         ELSE IF ~ok
              THEN ReturnErr(Logged(r, "nats.Connect"), ErrNatsConnect)
              ELSE [Logged(Logged(r, "nats.Connect"), "go HealthzEventChecker")
                      EXCEPT !.natsConns = @ + 1,
                             !.checkers = Append(@, NewChecker(r.cfg.ServiceName))]
    ELSE r

\* --- slog init ---
SlogInit(r) ==
    IF r.cfg.SlogEnabled
    THEN LET logLevel == IF r.cfg.SlogConfig.logLevel # LevelInfo
                         THEN r.cfg.SlogConfig.logLevel
                         ELSE LevelInfo
         IN  [Logged(r, "slog.SetDefault")
                EXCEPT !.slogDefault = [handler |-> "otel", level |-> logLevel]]
    ELSE r

\* --- Sentry init ---
SentryInit(r, environment, ok) ==
    IF r.cfg.SentryEnabled
    THEN IF r.cfg.SentryConfig.DSN = ""
         THEN ReturnErr(r, ErrSentryDSN)
         ELSE LET sentryConfig ==
                    [bound       |-> FALSE,
                     Dsn         |-> r.cfg.SentryConfig.DSN,
                     Environment |-> IF r.cfg.SentryConfig.Environment # ""
                                     THEN r.cfg.SentryConfig.Environment
                                     ELSE environment,
                     Release     |-> r.cfg.SentryConfig.Release]
              IN  IF ~ok
                  THEN ReturnErr(Logged(r, "sentry.Init"), ErrSentryInit)
                  ELSE [Logged(r, "sentry.Init")
                          EXCEPT !.sentryClient = [sentryConfig EXCEPT !.bound = TRUE],
                                 !.otelProvider = "sentry",
                                 !.otelPropagator = "sentry"]
    ELSE r

\* --- OpenTelemetry init ---, and the final "return nil, nil"
TraceInit(r, ok) ==
    IF r.cfg.TraceEnabled
    THEN IF r.cfg.TraceConfig.ExporterURL = ""
         THEN ReturnErr(r, ErrExporterURL)
         ELSE IF ~ok
              THEN ReturnErr(Logged(r, "otlptracegrpc.New"), ErrExporter)
              ELSE [Logged(r, "otlptracegrpc.New")
                      EXCEPT !.otelProvider = "otlp",
                             !.otelPropagator = "tracecontext",
                             !.returned = TRUE, !.tp = "running", !.err = NoError]
    ELSE [r EXCEPT !.returned = TRUE, !.tp = "nil", !.err = NoError]

\* initTelemetry(serviceName, environment, opts...) run from the globals g
\* = [TelemetryConfig, slogDefault, sentryClient, otelProvider,
\* otelPropagator, natsConns,
\* checkers]; the result holds the globals it leaves, its return values tp
\* and err, and the steps it took.
MutInitTelemetryKeepGoing(g, serviceName, environment, opts, out) ==
    LET r0 == [cfg |-> ZeroConfig, log |-> <<>>, returned |-> FALSE,
               tp |-> "nil", err |-> NoError,
               TelemetryConfig |-> g.TelemetryConfig,
               slogDefault |-> g.slogDefault, sentryClient |-> g.sentryClient,
               otelProvider |-> g.otelProvider,
               otelPropagator |-> g.otelPropagator, natsConns |-> g.natsConns,
               checkers |-> g.checkers]
        r1 == Configure(r0, serviceName, environment, opts)
        r2 == NatsInit(r1, out.nats)
        r3 == SlogInit(r2)
        r4 == SentryInit(r3, environment, out.sentry)
        r5 == IF r4.returned THEN r4 ELSE TraceInit(r4, out.trace)
    IN  r5

MutInitTelemetryChecksMySQL(g, serviceName, environment, opts, out) ==
    LET r0 == [cfg |-> ZeroConfig, log |-> <<>>, returned |-> FALSE,
               tp |-> "nil", err |-> NoError,
               TelemetryConfig |-> g.TelemetryConfig,
               slogDefault |-> g.slogDefault, sentryClient |-> g.sentryClient,
               otelProvider |-> g.otelProvider,
               otelPropagator |-> g.otelPropagator, natsConns |-> g.natsConns,
               checkers |-> g.checkers]
        r1 == Configure(r0, serviceName, environment, opts)
        r2 == NatsInit(r1, out.nats)
        r3 == IF r2.returned THEN r2 ELSE SlogInit(r2)
        r4 == IF r3.returned THEN r3 ELSE SentryInit(r3, environment, out.sentry)
        r5 == IF r4.returned THEN r4 ELSE TraceInit(r4, out.trace)
    IN  IF r5.err = NoError /\ r5.cfg.MysqlEnabled /\ r5.cfg.MysqlConfig.DSN = ""
        THEN ReturnErr(r5, "mysql DSN is required but not set")
        ELSE r5

initTelemetry(g, serviceName, environment, opts, out) ==
    LET r0 == [cfg |-> ZeroConfig, log |-> <<>>, returned |-> FALSE,
               tp |-> "nil", err |-> NoError,
               TelemetryConfig |-> g.TelemetryConfig,
               slogDefault |-> g.slogDefault, sentryClient |-> g.sentryClient,
               otelProvider |-> g.otelProvider,
               otelPropagator |-> g.otelPropagator, natsConns |-> g.natsConns,
               checkers |-> g.checkers]
        r1 == Configure(r0, serviceName, environment, opts)
        r2 == NatsInit(r1, out.nats)
        r3 == IF r2.returned THEN r2 ELSE SlogInit(r2)
        r4 == IF r3.returned THEN r3 ELSE SentryInit(r3, environment, out.sentry)
        r5 == IF r4.returned THEN r4 ELSE TraceInit(r4, out.trace)
    IN  r5

\* The ShutdownFunc Init returns, by what the closure does when called:
\* nil (no function), or a function that calls sentry.Flush when flush is
\* set and then tp.Shutdown when tp is set; func() {} sets neither.
NilFunc == [nil |-> TRUE, flush |-> FALSE, tp |-> FALSE]
Func(flush, tp) == [nil |-> FALSE, flush |-> flush, tp |-> tp]

MutShutdownForAlwaysFlush(cfg, err) ==
    IF err # NoError THEN NilFunc
    ELSE IF cfg.TraceEnabled /\ cfg.SentryEnabled THEN Func(TRUE, TRUE)
    ELSE Func(TRUE, FALSE)

ShutdownFor(cfg, err) ==
    IF err # NoError THEN NilFunc
    ELSE IF cfg.TraceEnabled /\ cfg.SentryEnabled THEN Func(TRUE, TRUE)
    ELSE IF cfg.SentryEnabled THEN Func(TRUE, FALSE)
    ELSE Func(FALSE, FALSE)

\* The fields of config in the order a copy of the struct writes them.
ConfigFields ==
    <<"ServiceName", "Environment", "MysqlConfig", "MysqlEnabled", "NatsConfig",
      "NatsEnabled", "SentryConfig", "SentryEnabled", "SlogConfig",
      "SlogEnabled", "TraceConfig", "TraceEnabled">>

\* initTelemetry after "TelemetryConfig = *cfg": the NATS, slog, Sentry and
\* OpenTelemetry stages run from the globals g with the call's own cfg
InitStages(g, cfg, environment, out) ==
    LET r1 == [cfg |-> cfg, log |-> <<>>, returned |-> FALSE,
               tp |-> "nil", err |-> NoError,
               TelemetryConfig |-> g.TelemetryConfig,
               slogDefault |-> g.slogDefault, sentryClient |-> g.sentryClient,
               otelProvider |-> g.otelProvider,
               otelPropagator |-> g.otelPropagator, natsConns |-> g.natsConns,
               checkers |-> g.checkers]
        r2 == NatsInit(r1, out.nats)
        r3 == IF r2.returned THEN r2 ELSE SlogInit(r2)
        r4 == IF r3.returned THEN r3 ELSE SentryInit(r3, environment, out.sentry)
        r5 == IF r4.returned THEN r4 ELSE TraceInit(r4, out.trace)
    IN  r5

\* A goroutine in Init(serviceName, environment, opts...): cfg is the config
\* it built from its arguments, written the number of fields of it copied
\* into TelemetryConfig so far.
NewInit(serviceName, environment, opts, out) ==
    [pc |-> "write", serviceName |-> serviceName, environment |-> environment,
     opts |-> opts, out |-> out,
     cfg |-> [ApplyOptions(ZeroConfig, opts)
                EXCEPT !.ServiceName = serviceName, !.Environment = environment],
     written |-> 0, err |-> NoError, shutdown |-> NilFunc]

Globals ==
    [TelemetryConfig |-> TelemetryConfig, slogDefault |-> slogDefault,
     sentryClient |-> sentryClient, otelProvider |-> otelProvider,
     otelPropagator |-> otelPropagator,
     natsConns |-> natsConns, checkers |-> checkers]

\* Init(serviceName, environment, opts...)
Init(serviceName, environment, opts, out) ==
    /\ \E cfg \in {ApplyOptions(ZeroConfig, opts)},
          r \in {initTelemetry(Globals, serviceName, environment, opts, out)} :
           /\ TelemetryConfig' = r.TelemetryConfig
           /\ slogDefault' = r.slogDefault
           /\ sentryClient' = r.sentryClient
           /\ otelProvider' = r.otelProvider
           /\ otelPropagator' = r.otelPropagator
           /\ natsConns' = r.natsConns
           /\ checkers' = r.checkers
           /\ initLog' = r.log
           /\ initErr' = r.err
           /\ tpState' = r.tp
           /\ shutdown' = ShutdownFor(cfg, r.err)
    /\ initCalls' = initCalls + 1
    /\ initArgs' = [serviceName |-> serviceName, environment |-> environment,
                    opts |-> opts, out |-> out]
    /\ shutdownCalls' = 0
    /\ UNCHANGED <<sentryFlushes, optVars, libVars, healthVars>>

\* shutdown(): a call of the ShutdownFunc the latest Init returned
CallShutdown ==
    /\ ~shutdown.nil
    /\ shutdownCalls < MaxShutdownCalls
    /\ shutdownCalls' = shutdownCalls + 1
    /\ sentryFlushes' = IF shutdown.flush THEN sentryFlushes + 1 ELSE sentryFlushes
    /\ tpState' = IF shutdown.tp THEN "shutdown" ELSE tpState
    /\ UNCHANGED <<TelemetryConfig, initCalls, initArgs, initLog, initErr,
                   shutdown, slogDefault, sentryClient, otelProvider,
                   otelPropagator,
                   natsConns, checkers, optVars, libVars, healthVars>>

----------------------------------------------------------------------------
(* Time and timestamps.                                                    *)

\* resolution of the clock: ticks per second
TicksPerSecond == 2
\* time.Sleep(60 * time.Second)
SleepSeconds == 60
\* time.Now().Add(-5 * time.Minute)
StaleMinutes == 5

SleepTicks == SleepSeconds * TicksPerSecond
StaleTicks == StaleMinutes * 60 * TicksPerSecond

\* The clock of the process is that of its location (time.Local).  The
\* location modelled sets its clocks back one hour at FallBackAt, the end
\* of daylight saving time: before it wall time is two hours ahead of UTC,
\* from it on one hour.  Two times on the same side of FallBackAt are
\* formatted as in a location whose zone never changes.
FallBackAt == 2 * StaleTicks

\* hours the wall clock is ahead of UTC at time t
ZoneOffset(t) == IF t < FallBackAt THEN 2 ELSE 1

\* t.Format(time.RFC3339): the text "<date>T<hh>:<mm>:<ss>+<zz>:00" of a
\* time, wall clock first and zone last.  Its fields have fixed widths, so
\* each is kept as the number it spells; the first field stands for date
\* and hour, and fractions of a second are dropped.
Format(t) ==
    LET s == t \div TicksPerSecond + ZoneOffset(t) * 3600
    IN  <<s \div 3600, (s \div 60) % 60, s % 60, ZoneOffset(t)>>

\* time.Parse(time.RFC3339, ts): the time a timestamp denotes
Parse(ts) == ((ts[1] * 3600 + ts[2] * 60 + ts[3]) - ts[4] * 3600) * TicksPerSecond

\* a < b on strings: lexicographic, the empty string below every other
RECURSIVE StrLess(_, _)
StrLess(a, b) ==
    IF b = <<>> THEN FALSE
    ELSE IF a = <<>> THEN TRUE
    ELSE IF Head(a) # Head(b) THEN Head(a) < Head(b)
    ELSE StrLess(Tail(a), Tail(b))

----------------------------------------------------------------------------
(* Probes made by the health endpoint.  An error is the text of its        *)
(* message, <<>> for nil.                                                  *)

\* what the database answers to a probe
DbAnswers == {"ok", "connect fails", "ping fails"}

\* mysqlhelper.Connect(dsn)
MySQLConnect(dsn, answer) ==
    IF answer = "connect fails"
    THEN [db |-> FALSE, err |-> <<"failed to connect to MySQL", ": ", "dial error">>]
    ELSE [db |-> TRUE, err |-> <<>>]

\* mysqlhelper.CheckConnection(dsn) without the ping
MutMySQLCheckConnectionNoPing(dsn, answer) ==
    LET c == MySQLConnect(dsn, answer)
    IN  IF c.err # <<>>
        THEN [target |-> "mysql", addr |-> dsn, err |-> c.err,
              opened |-> 0, closed |-> 0]
        ELSE [target |-> "mysql", addr |-> dsn, err |-> <<>>,
              opened |-> 1, closed |-> 1]

\* mysqlhelper.CheckConnection(dsn) closing the handle after a good ping only
MutMySQLCheckConnectionLeaks(dsn, answer) ==
    LET c == MySQLConnect(dsn, answer)
    IN  IF c.err # <<>>
        THEN [target |-> "mysql", addr |-> dsn, err |-> c.err,
              opened |-> 0, closed |-> 0]
        ELSE IF answer = "ping fails"
             THEN [target |-> "mysql", addr |-> dsn, err |-> <<"ping error">>,
                   opened |-> 1, closed |-> 0]
             ELSE [target |-> "mysql", addr |-> dsn, err |-> <<>>,
                   opened |-> 1, closed |-> 1]

\* mysqlhelper.CheckConnection(dsn): Connect, defer db.Close(), db.Ping()
MySQLCheckConnection(dsn, answer) ==
    LET c == MySQLConnect(dsn, answer)
    IN  IF c.err # <<>>
        THEN [target |-> "mysql", addr |-> dsn, err |-> c.err,
              opened |-> 0, closed |-> 0]
        ELSE IF answer = "ping fails"
             THEN [target |-> "mysql", addr |-> dsn, err |-> <<"ping error">>,
                   opened |-> 1, closed |-> 1]
             ELSE [target |-> "mysql", addr |-> dsn, err |-> <<>>,
                   opened |-> 1, closed |-> 1]

\* no call of mysqlhelper made yet
NoDbCall ==
    [n |-> 0, fn |-> "", dsn |-> "", answer |-> "ok", db |-> FALSE, err |-> <<>>]

\* CheckConnection(url) of the bus: nats.Connect(url), defer nc.Close()
CheckConnection(url, ok) ==
    IF ~ok
    THEN [target |-> "nats", addr |-> url, err |-> <<"nats", ": ", "connect error">>,
          opened |-> 0, closed |-> 0]
    ELSE [target |-> "nats", addr |-> url, err |-> <<>>,
          opened |-> 1, closed |-> 1]

----------------------------------------------------------------------------
(* The health endpoint.                                                    *)

\* httptest.NewRecorder(): nothing written yet
NoResponse ==
    [written |-> FALSE, headers |-> 0, code |-> 0, body |-> <<>>, probes |-> <<>>,
     readEvent |-> FALSE]

NoRequest == [method |-> "", at |-> 0, db |-> "ok", bus |-> TRUE]

\* fmt.Fprintln(w, a...): the operands separated by spaces, then a newline
RECURSIVE Fprintln(_)
Fprintln(a) ==
    IF a = <<>> THEN <<"\n">>
    ELSE IF Len(a) = 1 THEN Head(a) \o <<"\n">>
    ELSE Head(a) \o <<" ">> \o Fprintln(Tail(a))

\* w.WriteHeader(code) before the body and once more after it
MutRespondHeaderTwice(r, code, body) ==
    [r EXCEPT !.written = TRUE, !.headers = @ + 2, !.code = code, !.body = body]

\* w.WriteHeader(code) followed by the body
Respond(r, code, body) ==
    [r EXCEPT !.written = TRUE, !.headers = @ + 1, !.code = code, !.body = body]

\* the database check: probe, and on failure 500 "MySQL connection failed: <err>"
CheckMySQL(r, dsn, answer) ==
    LET p  == MySQLCheckConnection(dsn, answer)
        r1 == [r EXCEPT !.probes = Append(@, p)]
    IN  IF p.err # <<>>
        THEN Respond(r1, 500, Fprintln(<< <<"MySQL connection failed", ":">>, p.err >>))
        ELSE r1

\* the bus check with the timestamp looked at before the connection
MutCheckNATSEventFirst(r, url, ok, last, t) ==
    LET r1 == [r EXCEPT !.readEvent = TRUE]
    IN  IF last = <<>>
        THEN Respond(r1, 503, Fprintln(<< <<"No health check event received yet">> >>))
        ELSE IF StrLess(last, Format(t - StaleTicks))
        THEN Respond(r1, 503,
                     Fprintln(<< <<"Last health check event is ",
                                   "older than 5 minutes">> >>))
        ELSE LET p  == CheckConnection(url, ok)
                 r2 == [r1 EXCEPT !.probes = Append(@, p)]
             IN  IF p.err # <<>>
                 THEN Respond(r2, 500,
                              Fprintln(<< <<"NATS connection failed", ":">>, p.err >>))
                 ELSE r2

\* the bus check without the test for an event never received
MutCheckNATSNoEmptyCheck(r, url, ok, last, t) ==
    LET p  == CheckConnection(url, ok)
        r1 == [r EXCEPT !.probes = Append(@, p)]
        r2 == [r1 EXCEPT !.readEvent = TRUE]
    IN  IF p.err # <<>>
        THEN Respond(r1, 500, Fprintln(<< <<"NATS connection failed", ":">>, p.err >>))
        ELSE IF StrLess(last, Format(t - StaleTicks))
        THEN Respond(r2, 503,
                     Fprintln(<< <<"Last health check event is ",
                                   "older than 5 minutes">> >>))
        ELSE r2

\* the bus check without the test for an old event
MutCheckNATSNoStaleCheck(r, url, ok, last, t) ==
    LET p  == CheckConnection(url, ok)
        r1 == [r EXCEPT !.probes = Append(@, p)]
        r2 == [r1 EXCEPT !.readEvent = TRUE]
    IN  IF p.err # <<>>
        THEN Respond(r1, 500, Fprintln(<< <<"NATS connection failed", ":">>, p.err >>))
        ELSE IF last = <<>>
        THEN Respond(r2, 503, Fprintln(<< <<"No health check event received yet">> >>))
        ELSE r2

\* the bus check: a fresh connection, then the last liveness event
CheckNATS(r, url, ok, last, t) ==
    LET p  == CheckConnection(url, ok)
        r1 == [r EXCEPT !.probes = Append(@, p)]
        r2 == [r1 EXCEPT !.readEvent = TRUE]
    IN  IF p.err # <<>>
        THEN Respond(r1, 500, Fprintln(<< <<"NATS connection failed", ":">>, p.err >>))
        ELSE IF last = <<>>
        THEN Respond(r2, 503, Fprintln(<< <<"No health check event received yet">> >>))
        ELSE IF StrLess(last, Format(t - StaleTicks))
        THEN Respond(r2, 503,
                     Fprintln(<< <<"Last health check event is ",
                                   "older than 5 minutes">> >>))
        ELSE r2

\* {"status": "ok", "message": "Service is healthy"}
HealthyBody ==
    <<"{", "\"", "status", "\"", ": ", "\"", "ok", "\"", ", ",
      "\"", "message", "\"", ": ", "\"", "Service is healthy", "\"", "}">>

\* the endpoint running every check whatever the enabled flags are
MutHealthzChecksUngated(cfg, last, t, answer, ok) ==
    LET r1 == CheckMySQL(NoResponse, cfg.MysqlConfig.DSN, answer)
        r2 == IF r1.written THEN r1
              ELSE CheckNATS(r1, cfg.NatsConfig.URL, ok, last, t)
    IN  IF r2.written THEN r2 ELSE Respond(r2, 200, HealthyBody)

\* The checks of HealthzEndpointHandler(w, r) in order: database if enabled,
\* bus if enabled, else 200 and the fixed body.
HealthzChecks(cfg, last, t, answer, ok) ==
    LET r1 == IF cfg.MysqlEnabled
              THEN CheckMySQL(NoResponse, cfg.MysqlConfig.DSN, answer)
              ELSE NoResponse
        r2 == IF r1.written \/ ~cfg.NatsEnabled THEN r1
              ELSE CheckNATS(r1, cfg.NatsConfig.URL, ok, last, t)
    IN  IF r2.written THEN r2 ELSE Respond(r2, 200, HealthyBody)

----------------------------------------------------------------------------
(* CaptureError.                                                           *)

\* a context as CaptureError sees it: whether it carries an OpenTelemetry
\* span and whether it carries a Sentry span
Background == [otel |-> FALSE, sentry |-> FALSE]

NoCapture == [n |-> 0, ctx |-> Background, err |-> NoError, message |-> ""]

\* a call on the Sentry hub, on a span or on slog
Effect(call, target, level, message, error) ==
    [call |-> call, target |-> target, level |-> level, message |-> message,
     error |-> error]

\* if TelemetryConfig.SentryEnabled { ... }
SentryCapture(cfg, ctx, err, message) ==
    IF cfg.SentryEnabled
    THEN <<Effect("sentry.AddBreadcrumb", "hub", "error", message, err),
           Effect("sentry.CaptureException", "hub", "error", "", err)>>
         \o (IF ctx.sentry
             THEN <<Effect("sentrySpan.Status=", "sentry span", "internal_error", "", "")>>
             ELSE <<>>)
    ELSE <<>>

\* if TelemetryConfig.TraceEnabled { ... }: trace.SpanFromContext(ctx) is
\* the span of the context, or a span that ignores what it is told
TraceCapture(cfg, ctx, err) ==
    IF cfg.TraceEnabled
    THEN LET span == IF ctx.otel THEN "span" ELSE "noop span"
         IN  <<Effect("span.RecordError", span, "", "", err),
               Effect("span.SetStatus", span, "Error", err, "")>>
    ELSE <<>>

\* if TelemetryConfig.SlogEnabled { slog.Error(message, "error", err) }
SlogCapture(cfg, err, message) ==
    IF cfg.SlogEnabled
    THEN <<Effect("slog.Error", "slog", "ERROR", message, err)>>
    ELSE <<>>

\* CaptureError going on with a nil error
MutCaptureEffectsNoNilCheck(cfg, ctx, err, message) ==
    SentryCapture(cfg, ctx, err, message) \o TraceCapture(cfg, ctx, err)
        \o SlogCapture(cfg, err, message)

\* CaptureError with the span told before the hub
MutCaptureEffectsTraceFirst(cfg, ctx, err, message) ==
    IF err = NoError THEN <<>>
    ELSE TraceCapture(cfg, ctx, err) \o SentryCapture(cfg, ctx, err, message)
            \o SlogCapture(cfg, err, message)

\* what CaptureError(ctx, err, message) does, in order
CaptureEffects(cfg, ctx, err, message) ==
    IF err = NoError THEN <<>>
    ELSE SentryCapture(cfg, ctx, err, message) \o TraceCapture(cfg, ctx, err)
            \o SlogCapture(cfg, err, message)

----------------------------------------------------------------------------
(* httphelper: HTTPHandler and HTTPDo.                                     *)
(* A call in progress is a record: the arguments it was given and what the *)
(* outside world answers (input), its position (pc), the propagator it     *)
(* holds, the context it derived, its span, the headers of the request it  *)
(* sends, the calls it made in order (log), and what it handed back.       *)

\* no handler returned by HTTPHandler yet
NotWrapped == [made |-> FALSE, propagator |-> "noop"]

NoCtx == [span |-> FALSE, valid |-> FALSE, remote |-> FALSE]

\* what an http.Client answers: a response with a status, or no response
Response(status) == [ok |-> TRUE, status |-> status]
Refused == [ok |-> FALSE, status |-> 0]

NewCall(kind, input, propagator) ==
    [kind |-> kind, pc |-> "start", input |-> input,
     propagator |-> propagator, ctx |-> NoCtx, innerCtx |-> NoCtx,
     span |-> "none", headers |-> input.headers, log |-> <<>>,
     reached |-> FALSE, seen |-> {}, status |-> 0, err |-> NoError,
     panic |-> FALSE]

\* propagator.Extract(r.Context(), propagation.HeaderCarrier(r.Header)):
\* whether the context it returns carries a remote span context
Extract(propagator, headers) ==
    \/ propagator = "tracecontext" /\ "Traceparent" \in headers
    \/ propagator = "sentry" /\ "Sentry-Trace" \in headers

\* propagator.Inject(ctx, propagation.HeaderCarrier(req.Header)): the
\* headers of the request afterwards
Inject(propagator, ctx, headers) ==
    IF ~ctx.valid THEN headers
    ELSE IF propagator = "tracecontext" THEN headers \cup {"Traceparent"}
    ELSE IF propagator = "sentry" THEN headers \cup {"Sentry-Trace", "Baggage"}
    ELSE headers

\* the handler HTTPHandler returned, one statement at a time
MutServeRecovers(c) ==
    CASE c.pc = "start" ->
            [c EXCEPT !.ctx = [span |-> TRUE, valid |-> TRUE,
                               remote |-> Extract(c.propagator, c.input.headers)],
                      !.span = "started",
                      !.log = <<"propagator.Extract", "tracer.Start">>,
                      !.pc = "handler"]
      [] c.pc = "handler" ->
            [c EXCEPT !.innerCtx = c.ctx, !.log = Append(@, "handler"),
                      !.panic = FALSE, !.pc = "end"]
      [] c.pc = "end" ->
            [c EXCEPT !.span = "ended", !.log = Append(@, "span.End"),
                      !.pc = "done"]
      [] OTHER -> c

ServeStep(c) ==
    CASE c.pc = "start" ->
            \* ctx := propagator.Extract(...); ctx, span := tracer.Start(ctx, spanName)
            [c EXCEPT !.ctx = [span |-> TRUE, valid |-> TRUE,
                               remote |-> Extract(c.propagator, c.input.headers)],
                      !.span = "started",
                      !.log = <<"propagator.Extract", "tracer.Start">>,
                      !.pc = "handler"]
      [] c.pc = "handler" ->
            \* handler(ctx, w, r), which returns or panics
            [c EXCEPT !.innerCtx = c.ctx, !.log = Append(@, "handler"),
                      !.panic = (c.input.inner = "panics"), !.pc = "end"]
      [] c.pc = "end" ->
            \* defer span.End(), run on return and on panic alike
            [c EXCEPT !.span = "ended", !.log = Append(@, "span.End"),
                      !.pc = "done"]
      [] OTHER -> c

\* client.Do(req) for a request carrying the given context and headers
ClientDo(c) ==
    IF ~c.input.client
    THEN [c EXCEPT !.panic = TRUE]
    ELSE IF c.input.cancelled
    THEN [c EXCEPT !.err = "context canceled"]
    ELSE IF ~c.input.answer.ok
    THEN [c EXCEPT !.err = "connection refused"]
    ELSE [c EXCEPT !.reached = TRUE, !.seen = c.headers,
                   !.status = c.input.answer.status]

\* HTTPDo(ctx, client, req, spanName), one statement at a time; provider and
\* propagator are what otel.Tracer and otel.GetTextMapPropagator hand out
MutHTTPDoStatusIsError(c, provider, propagator) ==
    CASE c.pc = "start" ->
            [c EXCEPT !.propagator = propagator,
                      !.ctx = [span |-> TRUE,
                               valid |-> (provider # "global" \/ c.input.parent),
                               remote |-> FALSE],
                      !.span = "started", !.log = <<"tracer.Start">>,
                      !.pc = "inject"]
      [] c.pc = "inject" ->
            [c EXCEPT !.headers = Inject(c.propagator, c.ctx, c.headers),
                      !.log = Append(@, "propagator.Inject"), !.pc = "do"]
      [] c.pc = "do" ->
            LET d == ClientDo(c)
            IN  [d EXCEPT !.err = IF d.status >= 400 THEN "bad status" ELSE @,
                          !.status = IF d.status >= 400 THEN 0 ELSE @,
                          !.log = Append(@, "client.Do"), !.pc = "end"]
      [] c.pc = "end" ->
            [c EXCEPT !.span = "ended", !.log = Append(@, "span.End"),
                      !.pc = "done"]
      [] OTHER -> c

MutHTTPDoNoInject(c, provider, propagator) ==
    CASE c.pc = "start" ->
            [c EXCEPT !.propagator = propagator,
                      !.ctx = [span |-> TRUE,
                               valid |-> (provider # "global" \/ c.input.parent),
                               remote |-> FALSE],
                      !.span = "started", !.log = <<"tracer.Start">>,
                      !.pc = "inject"]
      [] c.pc = "inject" ->
            [c EXCEPT !.log = Append(@, "propagator.Inject"), !.pc = "do"]
      [] c.pc = "do" ->
            [ClientDo(c) EXCEPT !.log = Append(@, "client.Do"), !.pc = "end"]
      [] c.pc = "end" ->
            [c EXCEPT !.span = "ended", !.log = Append(@, "span.End"),
                      !.pc = "done"]
      [] OTHER -> c

HTTPDoStep(c, provider, propagator) ==
    CASE c.pc = "start" ->
            \* propagator := otel.GetTextMapPropagator();
            \* ctx, span := tracer.Start(ctx, spanName)
            [c EXCEPT !.propagator = propagator,
                      !.ctx = [span |-> TRUE,
                               valid |-> (provider # "global" \/ c.input.parent),
                               remote |-> FALSE],
                      !.span = "started", !.log = <<"tracer.Start">>,
                      !.pc = "inject"]
      [] c.pc = "inject" ->
            \* propagator.Inject(ctx, propagation.HeaderCarrier(req.Header))
            [c EXCEPT !.headers = Inject(c.propagator, c.ctx, c.headers),
                      !.log = Append(@, "propagator.Inject"), !.pc = "do"]
      [] c.pc = "do" ->
            \* req = req.WithContext(ctx); return client.Do(req)
            [ClientDo(c) EXCEPT !.log = Append(@, "client.Do"), !.pc = "end"]
      [] c.pc = "end" ->
            \* defer span.End()
            [c EXCEPT !.span = "ended", !.log = Append(@, "span.End"),
                      !.pc = "done"]
      [] OTHER -> c

----------------------------------------------------------------------------
(* k8shelper: GetEnvironment. A namespace is the text of the namespace     *)
(* file, a sequence of characters.                                         *)

\* the file cannot be read: os.ReadFile returns an error
NoFile == [readable |-> FALSE, data |-> <<>>]

NoK8sCall == [n |-> 0, revision |-> "", namespace |-> <<>>, environment |-> ""]

\* strings.Contains(s, substr)
StringsContains(s, substr) ==
    \E i \in 0..(Len(s) - Len(substr)) :
        \A j \in 1..Len(substr) : s[i + j] = substr[j]

Dev == <<"d", "e", "v">>
Prod == <<"p", "r", "o", "d">>
Test == <<"t", "e", "s", "t">>
Staging == <<"s", "t", "a", "g", "i", "n", "g">>

\* getNamespace(): the text of the file, "" when it cannot be read
getNamespace(file) == IF file.readable THEN file.data ELSE <<>>

\* GetEnvironment(), the revision with "local": an else-if chain, the first
\* match decides
GetEnvironment(file) ==
    LET namespace == getNamespace(file)
    IN  IF StringsContains(namespace, Dev) THEN "development"
        ELSE IF StringsContains(namespace, Prod) THEN "production"
        ELSE IF StringsContains(namespace, Test) THEN "testing"
        ELSE IF StringsContains(namespace, Staging) THEN "staging"
        ELSE "local"

\* GetEnvironment(), the revision without "local": three ifs in a row, the
\* last match decides
GetEnvironmentIfs(file) ==
    LET namespace == getNamespace(file)
        e0 == "development"
        e1 == IF StringsContains(namespace, Prod) THEN "production" ELSE e0
        e2 == IF StringsContains(namespace, Test) THEN "testing" ELSE e1
        e3 == IF StringsContains(namespace, Staging) THEN "staging" ELSE e2
    IN  e3

----------------------------------------------------------------------------
(* natshelper: Publish, PublishMsg, Subscribe and QueueSubscribe.          *)
(* The header of a message is nil or a map, of which only the keys count.  *)

NilHeader == [nil |-> TRUE, keys |-> {}]
Header(keys) == [nil |-> FALSE, keys |-> keys]

\* a call in progress: kind is "Publish", "PublishMsg" or "callback"; input
\* its arguments and what the bus or the user handler does; msg the header
\* of the message it holds; handed the header of the message as it was
\* given to nc.PublishMsg
NewBusCall(kind, input) ==
    [kind |-> kind, pc |-> "start", input |-> input, ctx |-> NoCtx,
     handlerCtx |-> NoCtx, span |-> "none", msg |-> input.header,
     log |-> <<>>, given |-> FALSE, handed |-> NilHeader, err |-> NoError,
     panic |-> FALSE]

\* otel.GetTextMapPropagator().Inject(ctx, propagation.HeaderCarrier(h)):
\* a key is set in the map h, which panics when there is a key to set and
\* h is nil
InjectHeader(c, propagator) ==
    LET keys == Inject(propagator, c.ctx, {})
    IN  IF keys = {} THEN c
        ELSE IF c.msg.nil THEN [c EXCEPT !.panic = TRUE]
        ELSE [c EXCEPT !.msg = Header(c.msg.keys \cup keys)]

\* nc.PublishMsg(msg)
BusPublishMsg(c) ==
    [c EXCEPT !.given = TRUE, !.handed = c.msg,
              !.err = IF c.input.ok THEN NoError ELSE "nats: connection closed"]

\* PublishMsg without "if msg.Header == nil { msg.Header = nats.Header{} }"
MutPublishStepNoHeaderCheck(c, provider, propagator) ==
    CASE c.pc = "start" ->
            [c EXCEPT !.log = <<"sentry.AddBreadcrumb", "tracer.Start">>,
                      !.ctx = [span |-> TRUE,
                               valid |-> (provider # "global" \/ c.input.parent),
                               remote |-> FALSE],
                      !.span = "started", !.pc = "inject"]
      [] c.pc = "inject" ->
            LET m == IF c.kind = "Publish" THEN [c EXCEPT !.msg = Header({})]
                     ELSE c
                d == InjectHeader(m, propagator)
            IN  [d EXCEPT !.log = Append(@, "propagator.Inject"),
                          !.pc = IF d.panic THEN "end" ELSE "publish"]
      [] c.pc = "publish" ->
            [BusPublishMsg(c) EXCEPT !.log = Append(@, "nc.PublishMsg"),
                                     !.pc = "end"]
      [] c.pc = "end" ->
            [c EXCEPT !.span = "ended", !.log = Append(@, "span.End"),
                      !.pc = "done"]
      [] OTHER -> c

\* Publish(ctx, nc, subj, data) and PublishMsg(ctx, nc, msg), one statement
\* at a time
PublishStep(c, provider, propagator) ==
    CASE c.pc = "start" ->
            \* sentry.AddBreadcrumb(...); ctx, span := tracer.Start(ctx, ...)
            [c EXCEPT !.log = <<"sentry.AddBreadcrumb", "tracer.Start">>,
                      !.ctx = [span |-> TRUE,
                               valid |-> (provider # "global" \/ c.input.parent),
                               remote |-> FALSE],
                      !.span = "started", !.pc = "inject"]
      [] c.pc = "inject" ->
            \* Publish: msg := &nats.Msg{..., Header: nats.Header{}}
            \* PublishMsg: if msg.Header == nil { msg.Header = nats.Header{} }
            \* then Inject
            LET m == IF c.kind = "Publish" \/ c.msg.nil
                     THEN [c EXCEPT !.msg = Header({})]
                     ELSE c
                d == InjectHeader(m, propagator)
            IN  [d EXCEPT !.log = Append(@, "propagator.Inject"),
                          !.pc = IF d.panic THEN "end" ELSE "publish"]
      [] c.pc = "publish" ->
            \* return nc.PublishMsg(msg)
            [BusPublishMsg(c) EXCEPT !.log = Append(@, "nc.PublishMsg"),
                                     !.pc = "end"]
      [] c.pc = "end" ->
            \* defer span.End()
            [c EXCEPT !.span = "ended", !.log = Append(@, "span.End"),
                      !.pc = "done"]
      [] OTHER -> c

\* the callback Subscribe and QueueSubscribe hand to the bus client, run
\* for one delivered message, one statement at a time
MutCallbackStepAlwaysExtracts(c, provider, propagator) ==
    CASE c.pc = "start" ->
            [c EXCEPT !.log = <<"sentry.AddBreadcrumb", "propagator.Extract",
                                "tracer.Start">>,
                      !.ctx = [span |-> TRUE,
                               valid |-> (provider # "global"
                                            \/ Extract(propagator, c.msg.keys)),
                               remote |-> Extract(propagator, c.msg.keys)],
                      !.span = "started", !.pc = "handler"]
      [] c.pc = "handler" ->
            [c EXCEPT !.handlerCtx = c.ctx, !.log = Append(@, "handler"),
                      !.panic = (c.input.inner = "panics"), !.pc = "end"]
      [] c.pc = "end" ->
            [c EXCEPT !.span = "ended", !.log = Append(@, "span.End"),
                      !.pc = "done"]
      [] OTHER -> c

CallbackStep(c, provider, propagator) ==
    CASE c.pc = "start" ->
            \* sentry.AddBreadcrumb(...); ctx := context.Background();
            \* if msg.Header != nil { ctx = ...Extract(ctx, ...) };
            \* ctx, span := tracer.Start(ctx, ...)
            LET remote == ~c.msg.nil /\ Extract(propagator, c.msg.keys)
            IN  [c EXCEPT !.log = <<"sentry.AddBreadcrumb">>
                                    \o (IF c.msg.nil THEN <<>>
                                        ELSE <<"propagator.Extract">>)
                                    \o <<"tracer.Start">>,
                          !.ctx = [span |-> TRUE,
                                   valid |-> (provider # "global" \/ remote),
                                   remote |-> remote],
                          !.span = "started", !.pc = "handler"]
      [] c.pc = "handler" ->
            \* handler(ctx, msg), which returns or panics
            [c EXCEPT !.handlerCtx = c.ctx, !.log = Append(@, "handler"),
                      !.panic = (c.input.inner = "panics"), !.pc = "end"]
      [] c.pc = "end" ->
            \* defer span.End()
            [c EXCEPT !.span = "ended", !.log = Append(@, "span.End"),
                      !.pc = "done"]
      [] OTHER -> c

----------------------------------------------------------------------------
(* Initial state: the process before main runs.                            *)

\* The process starts when the clock is already past the staleness window,
\* so that "five minutes ago" is a time of the clock.
StartTime == StaleTicks

StartState ==
    /\ applied = <<>>
    /\ draft = ZeroConfig
    /\ TelemetryConfig = ZeroConfig
    /\ initCalls = 0
    /\ initArgs = [serviceName |-> "", environment |-> "", opts |-> <<>>,
                   out |-> [nats |-> TRUE, sentry |-> TRUE, trace |-> TRUE]]
    /\ initLog = <<>>
    /\ initErr = NoError
    /\ shutdown = NilFunc
    /\ shutdownCalls = 0
    /\ slogDefault = [handler |-> "default", level |-> LevelInfo]
    /\ sentryClient = [bound |-> FALSE, Dsn |-> "", Environment |-> "",
                       Release |-> ""]
    /\ sentryFlushes = 0
    /\ otelProvider = "global"
    /\ otelPropagator = "noop"
    /\ tpState = "nil"
    /\ natsConns = 0
    /\ checkers = <<>>
    /\ inflight = 0
    /\ LastHealthCheckEvent = <<>>
    /\ now = StartTime
    /\ advances = 0
    /\ req = NoRequest
    /\ w = NoResponse
    /\ effects = <<>>
    /\ captured = NoCapture
    /\ wrapped = NotWrapped
    /\ calls = <<>>
    /\ dbCall = NoDbCall
    /\ handles = 0
    /\ inits = <<>>
    /\ namespaceFile = NoFile
    /\ k8sCall = NoK8sCall
    /\ subs = <<>>
    /\ busCalls = <<>>

----------------------------------------------------------------------------
(* SpecOptions: options folded one by one over an empty config.            *)

\* opt(cfg) for the next option of the list
ApplyNextOption(opt) ==
    /\ Len(applied) < MaxOpts
    /\ applied' = Append(applied, opt)
    /\ draft' = ApplyOption(draft, opt)
    /\ UNCHANGED <<initVars, healthVars, libVars>>

NextOptions == \E opt \in OptionUniverse : ApplyNextOption(opt)

SpecOptions == StartState /\ [][NextOptions]_vars

----------------------------------------------------------------------------
(* SpecInit: Init calls and calls of the returned ShutdownFunc.            *)

ServiceNames == {"svc"}
Environments == {"test"}

SlogChoices ==
    {<<>>, <<Opt("WithSlog", <<>>)>>,
     <<Opt("WithSlog", <<SlogLogLevel(LevelDebug)>>)>>}
NatsChoices ==
    {<<>>, <<Opt("WithNATS", <<>>)>>,
     <<Opt("WithNATS", <<NATSURL("nats://bus:4222")>>)>>}
SentryChoices ==
    {<<>>, <<Opt("WithSentry", <<>>)>>,
     <<Opt("WithSentry", <<SentryDSN("https://key@sentry/1")>>)>>}
TraceChoices ==
    {<<>>, <<Opt("WithTrace", <<>>)>>,
     <<Opt("WithTrace", <<TraceExporterURL("collector:4317")>>)>>}
MySQLChoices ==
    {<<>>, <<Opt("WithMySQL", <<>>)>>,
     <<Opt("WithMySQL", <<MySQLDSN("user:pass@tcp(db:3306)/app")>>)>>}

\* The option lists given to Init: each integration left out, enabled with
\* its required field missing, or enabled with the field set.
InitOptSeqs ==
    {sl \o se \o my \o na \o tr :
        sl \in SlogChoices, se \in SentryChoices, my \in MySQLChoices,
        na \in NatsChoices, tr \in TraceChoices}

\* The answers that matter to a call with these options: a call that is
\* never made (integration off, or its required field missing) has no
\* answer to vary.
OutcomesFor(opts) ==
    LET cfg == ApplyOptions(ZeroConfig, opts)
    IN  {out \in Outcomes :
            /\ (~(cfg.NatsEnabled /\ cfg.NatsConfig.URL # "") => out.nats)
            /\ (~(cfg.SentryEnabled /\ cfg.SentryConfig.DSN # "") => out.sentry)
            /\ (~(cfg.TraceEnabled /\ cfg.TraceConfig.ExporterURL # "") => out.trace)}

InitCall ==
    /\ initCalls < MaxInits
    /\ \E serviceName \in ServiceNames, environment \in Environments,
          opts \in InitOptSeqs :
           \E out \in OutcomesFor(opts) :
               Init(serviceName, environment, opts, out)

NextInit == InitCall \/ CallShutdown

SpecInit == StartState /\ [][NextInit]_vars

----------------------------------------------------------------------------
(* SpecHealth: Init with the database and bus options, the heartbeat       *)
(* goroutines it starts, the clock, and requests to the health endpoint.   *)

\* number of clock advances
MaxAdvances == 2
\* liveness messages published and not yet delivered
MaxInflight == 1

Methods == {"GET", "DELETE"}

\* a tick, the heartbeat period, the staleness window
ClockSteps == {1, SleepTicks, StaleTicks}

Tick(d) ==
    /\ advances < MaxAdvances
    /\ advances' = advances + 1
    /\ now' = now + d
    /\ UNCHANGED <<inflight, LastHealthCheckEvent, req, w, optVars, libVars, initVars>>

\* the subscriptions a message published on the subject is delivered to
Subscribers(subject) ==
    {j \in 1..Len(checkers) :
        checkers[j].subscribed /\ checkers[j].subject = subject}

\* HealthzEventChecker: nc.Subscribe(serviceName+".healthz", callback)
HealthzEventCheckerSubscribe(i, ok) ==
    /\ checkers[i].pc = "subscribe"
    /\ checkers' = [checkers EXCEPT ![i] =
                      IF ok THEN [@ EXCEPT !.pc = "publish", !.subscribed = TRUE]
                      ELSE [@ EXCEPT !.pc = "returned"]]
    /\ UNCHANGED <<TelemetryConfig, initCalls, initArgs, initLog, initErr,
                   shutdown, shutdownCalls, slogDefault, sentryClient,
                   sentryFlushes, otelProvider, otelPropagator, tpState, natsConns,
                   optVars, libVars, healthVars>>

\* HealthzEventChecker: one turn of the loop, nc.Publish then time.Sleep
HealthzEventCheckerPublish(i, ok) ==
    /\ checkers[i].pc = "publish"
    /\ now >= checkers[i].wake
    /\ IF ok
       THEN \E n \in {Cardinality(Subscribers(checkers[i].subject))} :
               /\ inflight + n <= MaxInflight
               /\ inflight' = inflight + n
               /\ checkers' = [checkers EXCEPT ![i].wake = now + SleepTicks]
       ELSE /\ inflight' = inflight
            /\ checkers' = [checkers EXCEPT ![i].pc = "returned"]
    /\ UNCHANGED <<TelemetryConfig, initCalls, initArgs, initLog, initErr,
                   shutdown, shutdownCalls, slogDefault, sentryClient,
                   sentryFlushes, otelProvider, otelPropagator, tpState, natsConns,
                   LastHealthCheckEvent, now, advances, req, w, optVars, libVars>>

\* the subscription callback, on a delivered liveness message:
\* LastHealthCheckEvent = time.Now().Format(time.RFC3339)
HealthzEventCallback ==
    /\ inflight > 0
    /\ inflight' = inflight - 1
    /\ LastHealthCheckEvent' = Format(now)
    /\ UNCHANGED <<now, advances, req, w, optVars, libVars, initVars>>

\* req := httptest.NewRequest(method, "/healthz", nil); w := httptest.NewRecorder()
NewRecorder ==
    /\ w.written
    /\ w' = NoResponse
    /\ req' = NoRequest
    /\ UNCHANGED <<inflight, LastHealthCheckEvent, now, advances, optVars, libVars, initVars>>

\* HealthzEndpointHandler(w, req)
HealthzEndpointHandler(method, answer, ok) ==
    /\ ~w.written
    /\ req' = [method |-> method, at |-> now, db |-> answer, bus |-> ok]
    /\ w' = HealthzChecks(TelemetryConfig, LastHealthCheckEvent, now, answer, ok)
    /\ UNCHANGED <<inflight, LastHealthCheckEvent, now, advances, optVars, libVars, initVars>>

\* The option lists given to Init here: the database and the bus, each left
\* out or enabled with its field set.
HealthOptSeqs ==
    {my \o na : my \in {<<>>, <<Opt("WithMySQL", <<MySQLDSN("user:pass@tcp(db:3306)/app")>>)>>},
                na \in {<<>>, <<Opt("WithNATS", <<NATSURL("nats://bus:4222")>>)>>}}

\* The answers that matter to a request: a dependency whose integration is
\* off is not probed and has no answer to vary.
AnswersFor(cfg) ==
    {a \in [db : DbAnswers, bus : BOOLEAN] :
        /\ (~cfg.MysqlEnabled => a.db = "ok")
        /\ (~cfg.NatsEnabled => a.bus)}

InitCallHealth ==
    /\ initCalls < MaxInits
    /\ \E serviceName \in ServiceNames, environment \in Environments,
          opts \in HealthOptSeqs :
           \E out \in OutcomesFor(opts) :
               Init(serviceName, environment, opts, out)

NextHealth ==
    \/ InitCallHealth
    \/ \E i \in 1..Len(checkers), ok \in BOOLEAN : HealthzEventCheckerSubscribe(i, ok)
    \/ \E i \in 1..Len(checkers), ok \in BOOLEAN : HealthzEventCheckerPublish(i, ok)
    \/ HealthzEventCallback
    \/ \E d \in ClockSteps : Tick(d)
    \/ NewRecorder
    \/ \E method \in Methods, a \in AnswersFor(TelemetryConfig) :
          HealthzEndpointHandler(method, a.db, a.bus)

SpecHealth == StartState /\ [][NextHealth]_vars

----------------------------------------------------------------------------
(* SpecCapture: the enabled flags set as the tests set them, and calls of  *)
(* CaptureError.                                                           *)

\* number of CaptureError calls
MaxCaptures == 2

\* contexts: context.Background(), one carrying an OpenTelemetry span, one
\* carrying an OpenTelemetry span and a Sentry span
Contexts ==
    {Background, [otel |-> TRUE, sentry |-> FALSE], [otel |-> TRUE, sentry |-> TRUE]}

\* nil and errors.New("test error")
CapturedErrors == {NoError, "test error"}

Messages == {"", "test error occurred"}

\* TelemetryConfig = config{SentryEnabled: ..., TraceEnabled: ..., SlogEnabled: ...}
SetTelemetryConfig(sentry, trace, slog) ==
    /\ TelemetryConfig' = [ZeroConfig EXCEPT !.SentryEnabled = sentry,
                                             !.TraceEnabled = trace,
                                             !.SlogEnabled = slog]
    /\ UNCHANGED <<initCalls, initArgs, initLog, initErr, shutdown,
                   shutdownCalls, slogDefault, sentryClient, sentryFlushes,
                   otelProvider, otelPropagator, tpState, natsConns, checkers,
                   optVars,
                   healthVars, libVars>>

\* CaptureError(ctx, err, message)
CaptureError(ctx, err, message) ==
    /\ captured.n < MaxCaptures
    /\ effects' = effects \o CaptureEffects(TelemetryConfig, ctx, err, message)
    /\ captured' = [n |-> captured.n + 1, ctx |-> ctx, err |-> err,
                    message |-> message]
    /\ UNCHANGED <<optVars, initVars, healthVars, concVars,
                   httpVars, dbVars, k8sVars, natsVars>>

NextCapture ==
    \/ \E sentry \in BOOLEAN, trace \in BOOLEAN, slog \in BOOLEAN :
          SetTelemetryConfig(sentry, trace, slog)
    \/ \E ctx \in Contexts, err \in CapturedErrors, message \in Messages :
          CaptureError(ctx, err, message)

SpecCapture == StartState /\ [][NextCapture]_vars

----------------------------------------------------------------------------
(* SpecHTTP: the tracer and the propagator registered as the tests and     *)
(* Init register them, a handler wrapped by HTTPHandler and served, and    *)
(* HTTPDo called, each call a goroutine of its own.                        *)

\* calls in progress at a time
MaxCalls == 1

\* otel.SetTracerProvider and otel.SetTextMapPropagator as called by the
\* handler tests (provider only), by setupTestTracer, by the Sentry stage
\* and by the OpenTelemetry stage of initTelemetry
TracerSetups ==
    {<<"sdk", "noop">>, <<"sdk", "tracecontext">>, <<"sentry", "sentry">>,
     <<"otlp", "tracecontext">>}

Statuses == {200, 404, 500}

\* the requests served: with or without an incoming Traceparent header, by
\* an inner handler that returns or panics
ServeInputs ==
    {[headers |-> h, inner |-> i, parent |-> FALSE, cancelled |-> FALSE,
      client |-> TRUE, answer |-> Refused] :
        h \in {{}, {"Traceparent"}}, i \in {"returns", "panics"}}

\* the HTTPDo calls: with or without an active span in ctx, answered by a
\* status or refused; with a cancelled ctx; with a nil client
HTTPDoInputs ==
    {[headers |-> {}, inner |-> "", parent |-> p, cancelled |-> FALSE,
      client |-> TRUE, answer |-> a] :
        p \in BOOLEAN, a \in {Response(st) : st \in Statuses} \cup {Refused}}
    \cup {[headers |-> {}, inner |-> "", parent |-> FALSE, cancelled |-> TRUE,
           client |-> TRUE, answer |-> Response(200)],
          [headers |-> {}, inner |-> "", parent |-> FALSE, cancelled |-> FALSE,
           client |-> FALSE, answer |-> Refused]}

SetupTracer(provider, propagator) ==
    /\ otelProvider' = provider
    /\ otelPropagator' = propagator
    /\ UNCHANGED <<TelemetryConfig, initCalls, initArgs, initLog, initErr,
                   shutdown, shutdownCalls, slogDefault, sentryClient,
                   sentryFlushes, tpState, natsConns, checkers, optVars,
                   healthVars, libVars>>

\* HTTPHandler(handler, spanName): the returned handler holds the propagator
\* registered when it was made
HTTPHandler ==
    /\ wrapped' = [made |-> TRUE, propagator |-> otelPropagator]
    /\ UNCHANGED <<optVars, initVars, healthVars, concVars,
                   captureVars, dbVars, calls, k8sVars, natsVars>>

\* a request arrives at the returned handler
ServeHTTP(input) ==
    /\ wrapped.made
    /\ Len(calls) < MaxCalls
    /\ calls' = Append(calls, NewCall("handler", input, wrapped.propagator))
    /\ UNCHANGED <<optVars, initVars, healthVars, concVars,
                   captureVars, dbVars, wrapped, k8sVars, natsVars>>

\* HTTPDo(ctx, client, req, spanName) is called
HTTPDo(input) ==
    /\ Len(calls) < MaxCalls
    /\ calls' = Append(calls, NewCall("do", input, "noop"))
    /\ UNCHANGED <<optVars, initVars, healthVars, concVars,
                   captureVars, dbVars, wrapped, k8sVars, natsVars>>

\* the next statement of call i
Step(i) ==
    /\ calls[i].pc # "done"
    /\ calls' = [calls EXCEPT ![i] =
                    IF @.kind = "handler" THEN ServeStep(@)
                    ELSE HTTPDoStep(@, otelProvider, otelPropagator)]
    /\ UNCHANGED <<optVars, initVars, healthVars, concVars,
                   captureVars, dbVars, wrapped, k8sVars, natsVars>>

\* call i has handed back its result, or its panic, to its caller
Return(i) ==
    /\ calls[i].pc = "done"
    /\ calls' = SubSeq(calls, 1, i - 1) \o SubSeq(calls, i + 1, Len(calls))
    /\ UNCHANGED <<optVars, initVars, healthVars, concVars,
                   captureVars, dbVars, wrapped, k8sVars, natsVars>>

NextHTTP ==
    \/ \E setup \in TracerSetups : SetupTracer(setup[1], setup[2])
    \/ HTTPHandler
    \/ \E input \in ServeInputs : ServeHTTP(input)
    \/ \E input \in HTTPDoInputs : HTTPDo(input)
    \/ \E i \in DOMAIN calls : Step(i)
    \/ \E i \in DOMAIN calls : Return(i)

SpecHTTP == StartState /\ [][NextHTTP]_vars

----------------------------------------------------------------------------
(* SpecMySQL: calls of mysqlhelper.Connect and mysqlhelper.CheckConnection *)
(* and the closing of the handles Connect returned.                        *)

\* number of calls of the two functions
MaxDbCalls == 3

\* the DSNs of the tests, of which the driver cannot parse "invalid-dsn",
\* and one of a database that may be there
DSNs == {"", "invalid-dsn", "user:pass@/dbname", "user:pass@tcp(db:3306)/app"}

\* what the database answers: a DSN that cannot be parsed fails in
\* sqlx.Connect whatever the database would answer
DbAnswersFor(dsn) ==
    IF dsn = "invalid-dsn" THEN {"connect fails"} ELSE DbAnswers

\* db, err := mysqlhelper.Connect(dsn)
CallConnect(dsn, answer) ==
    /\ dbCall.n < MaxDbCalls
    /\ \E c \in {MySQLConnect(dsn, answer)} :
          /\ dbCall' = [n |-> dbCall.n + 1, fn |-> "Connect", dsn |-> dsn,
                        answer |-> answer, db |-> c.db, err |-> c.err]
          /\ handles' = IF c.db THEN handles + 1 ELSE handles
    /\ UNCHANGED <<optVars, initVars, healthVars, concVars,
                   captureVars, httpVars, k8sVars, natsVars>>

\* err := mysqlhelper.CheckConnection(dsn)
CallCheckConnection(dsn, answer) ==
    /\ dbCall.n < MaxDbCalls
    /\ \E c \in {MySQLCheckConnection(dsn, answer)} :
          /\ dbCall' = [n |-> dbCall.n + 1, fn |-> "CheckConnection",
                        dsn |-> dsn, answer |-> answer, db |-> FALSE,
                        err |-> c.err]
          /\ handles' = handles + c.opened - c.closed
    /\ UNCHANGED <<optVars, initVars, healthVars, concVars,
                   captureVars, httpVars, k8sVars, natsVars>>

\* db.Close() by the caller of Connect
CloseHandle ==
    /\ handles > 0
    /\ handles' = handles - 1
    /\ UNCHANGED <<optVars, initVars, healthVars, concVars,
                   captureVars, httpVars, dbCall, k8sVars, natsVars>>

NextMySQL ==
    \/ \E dsn \in DSNs : \E answer \in DbAnswersFor(dsn) : CallConnect(dsn, answer)
    \/ \E dsn \in DSNs : \E answer \in DbAnswersFor(dsn) :
          CallCheckConnection(dsn, answer)
    \/ CloseHandle

SpecMySQL == StartState /\ [][NextMySQL]_vars

----------------------------------------------------------------------------
(* SpecConcurrentInit: goroutines calling Init with the same arguments,    *)
(* as TestInit_ConcurrentCalls starts them. Nothing orders the goroutines, *)
(* and the copy of the struct into TelemetryConfig is not one step.        *)

\* goroutines calling Init
MaxGoroutines == 2

\* the option lists of the concurrent calls
ConcurrentOptSeqs ==
    {<<Opt("WithSlog", <<>>)>>,
     <<Opt("WithSentry", <<>>)>>,
     <<Opt("WithSlog", <<SlogLogLevel(LevelDebug)>>),
       Opt("WithSentry", <<SentryDSN("https://key@sentry/1")>>),
       Opt("WithTrace", <<TraceExporterURL("collector:4317")>>)>>}

\* go func() { shutdown, err := Init("concurrent-test", "test", opts...) }()
GoInit(serviceName, environment, opts, out) ==
    /\ Len(inits) < MaxGoroutines
    /\ \A i \in DOMAIN inits :
          /\ inits[i].opts = opts
          /\ inits[i].serviceName = serviceName
          /\ inits[i].environment = environment
    /\ inits' = Append(inits, NewInit(serviceName, environment, opts, out))
    /\ UNCHANGED <<optVars, initVars, healthVars, captureVars, httpVars, dbVars,
                   k8sVars, natsVars>>

\* TelemetryConfig = *cfg, the next field of it
WriteTelemetryConfig(i) ==
    /\ inits[i].pc = "write"
    /\ \E f \in {ConfigFields[inits[i].written + 1]} :
          TelemetryConfig' = [TelemetryConfig EXCEPT ![f] = inits[i].cfg[f]]
    /\ inits' = [inits EXCEPT ![i].written = @ + 1,
                              ![i].pc = IF inits[i].written + 1 = Len(ConfigFields)
                                        THEN "stages" ELSE "write"]
    /\ UNCHANGED <<initCalls, initArgs, initLog, initErr, shutdown,
                   shutdownCalls, slogDefault, sentryClient, sentryFlushes,
                   otelProvider, otelPropagator, tpState, natsConns, checkers,
                   optVars, healthVars, captureVars, httpVars, dbVars,
                   k8sVars, natsVars>>

\* the rest of initTelemetry, and Init's choice of the ShutdownFunc
RunStages(i) ==
    /\ inits[i].pc = "stages"
    /\ \E r \in {InitStages(Globals, inits[i].cfg, inits[i].environment,
                            inits[i].out)} :
          /\ slogDefault' = r.slogDefault
          /\ sentryClient' = r.sentryClient
          /\ otelProvider' = r.otelProvider
          /\ otelPropagator' = r.otelPropagator
          /\ natsConns' = r.natsConns
          /\ checkers' = r.checkers
          /\ inits' = [inits EXCEPT ![i].err = r.err,
                                    ![i].shutdown =
                                        ShutdownFor(ApplyOptions(ZeroConfig, inits[i].opts),
                                                    r.err),
                                    ![i].pc = "done"]
    /\ UNCHANGED <<TelemetryConfig, initCalls, initArgs, initLog, initErr,
                   shutdown, shutdownCalls, sentryFlushes, tpState, optVars,
                   healthVars, captureVars, httpVars, dbVars, k8sVars,
                   natsVars>>

\* the goroutine has sent its err to the results channel and ended
EndGoroutines ==
    /\ inits # <<>>
    /\ \A i \in DOMAIN inits : inits[i].pc = "done"
    /\ inits' = <<>>
    /\ UNCHANGED <<optVars, initVars, healthVars, captureVars, httpVars, dbVars,
                   k8sVars, natsVars>>

NextConcurrentInit ==
    \/ \E opts \in ConcurrentOptSeqs : \E out \in OutcomesFor(opts) :
          GoInit("concurrent-test", "test", opts, out)
    \/ \E i \in DOMAIN inits : WriteTelemetryConfig(i)
    \/ \E i \in DOMAIN inits : RunStages(i)
    \/ EndGoroutines

SpecConcurrentInit == StartState /\ [][NextConcurrentInit]_vars

----------------------------------------------------------------------------
(* SpecK8s: the namespace file as the cluster mounts it, and calls of      *)
(* GetEnvironment in either revision of the package.                       *)

\* number of GetEnvironment calls
MaxEnvCalls == 2
\* parts a namespace is put together from
MaxParts == 2

NamespaceParts == {Dev, Prod, Test, Staging, <<"n", "s">>, <<"-">>}

RECURSIVE Concat(_)
Concat(parts) == IF parts = <<>> THEN <<>> ELSE Head(parts) \o Concat(Tail(parts))

Namespaces == {Concat(parts) : parts \in SeqsUpTo(NamespaceParts, MaxParts)}

\* the cluster mounts the file, or it is absent
MountNamespace(file) ==
    /\ namespaceFile' = file
    /\ UNCHANGED <<optVars, initVars, healthVars, captureVars, httpVars,
                   dbVars, concVars, k8sCall, natsVars>>

\* env := k8shelper.GetEnvironment(), the revision with "local"
CallGetEnvironment ==
    /\ k8sCall.n < MaxEnvCalls
    /\ k8sCall' = [n |-> k8sCall.n + 1, revision |-> "local",
                   namespace |-> getNamespace(namespaceFile),
                   environment |-> GetEnvironment(namespaceFile)]
    /\ UNCHANGED <<optVars, initVars, healthVars, captureVars, httpVars,
                   dbVars, concVars, namespaceFile, natsVars>>

\* env := k8shelper.GetEnvironment(), the revision without "local"
CallGetEnvironmentIfs ==
    /\ k8sCall.n < MaxEnvCalls
    /\ k8sCall' = [n |-> k8sCall.n + 1, revision |-> "ifs",
                   namespace |-> getNamespace(namespaceFile),
                   environment |-> GetEnvironmentIfs(namespaceFile)]
    /\ UNCHANGED <<optVars, initVars, healthVars, captureVars, httpVars,
                   dbVars, concVars, namespaceFile, natsVars>>

NextK8s ==
    \/ \E ns \in Namespaces : MountNamespace([readable |-> TRUE, data |-> ns])
    \/ MountNamespace(NoFile)
    \/ CallGetEnvironment
    \/ CallGetEnvironmentIfs

SpecK8s == StartState /\ [][NextK8s]_vars

----------------------------------------------------------------------------
(* SpecNATS: the tracer and the propagator registered, messages published  *)
(* through Publish and PublishMsg, subscriptions made through Subscribe    *)
(* and QueueSubscribe, and messages delivered to them.                     *)

\* subscriptions made
MaxSubscriptions == 1
\* calls and callbacks in progress at a time
MaxBusCalls == 1

\* the headers of the messages: none, an empty map, a map with a key of the
\* caller's, a map carrying a trace context
PublishHeaders == {NilHeader, Header({}), Header({"X-Request-Id"})}
DeliveredHeaders == {NilHeader, Header({}), Header({"Traceparent"})}

PublishInputs ==
    {[parent |-> p, header |-> NilHeader, ok |-> ok, inner |-> "", sub |-> ""] :
        p \in BOOLEAN, ok \in BOOLEAN}

PublishMsgInputs ==
    {[parent |-> p, header |-> h, ok |-> TRUE, inner |-> "", sub |-> ""] :
        p \in BOOLEAN, h \in PublishHeaders}

\* err := natshelper.Publish(ctx, nc, subj, data) is called
Publish(input) ==
    /\ Len(busCalls) < MaxBusCalls
    /\ busCalls' = Append(busCalls, NewBusCall("Publish", input))
    /\ UNCHANGED <<optVars, initVars, healthVars, captureVars, httpVars,
                   dbVars, concVars, k8sVars, subs>>

\* err := natshelper.PublishMsg(ctx, nc, msg) is called
PublishMsg(input) ==
    /\ Len(busCalls) < MaxBusCalls
    /\ busCalls' = Append(busCalls, NewBusCall("PublishMsg", input))
    /\ UNCHANGED <<optVars, initVars, healthVars, captureVars, httpVars,
                   dbVars, concVars, k8sVars, subs>>

\* sub, err := natshelper.Subscribe(nc, subj, handler): nc.Subscribe
\* registers the callback, or fails, and the call returns
Subscribe(ok) ==
    /\ Len(subs) < MaxSubscriptions
    /\ subs' = IF ok THEN Append(subs, "Subscribe")
               ELSE subs
    /\ UNCHANGED <<optVars, initVars, healthVars, captureVars, httpVars,
                   dbVars, concVars, k8sVars, busCalls>>

\* sub, err := natshelper.QueueSubscribe(nc, subj, queue, handler)
QueueSubscribe(ok) ==
    /\ Len(subs) < MaxSubscriptions
    /\ subs' = IF ok THEN Append(subs, "QueueSubscribe")
               ELSE subs
    /\ UNCHANGED <<optVars, initVars, healthVars, captureVars, httpVars,
                   dbVars, concVars, k8sVars, busCalls>>

\* the bus client delivers a message to subscription i: its callback runs
Deliver(i, header, inner) ==
    /\ Len(busCalls) < MaxBusCalls
    /\ busCalls' = Append(busCalls,
                          NewBusCall("callback",
                                     [parent |-> FALSE, header |-> header,
                                      ok |-> TRUE, inner |-> inner,
                                      sub |-> subs[i]]))
    /\ UNCHANGED <<optVars, initVars, healthVars, captureVars, httpVars,
                   dbVars, concVars, k8sVars, subs>>

\* the next statement of call i
BusStep(i) ==
    /\ busCalls[i].pc # "done"
    /\ busCalls' = [busCalls EXCEPT ![i] =
                       IF @.kind = "callback"
                       THEN CallbackStep(@, otelProvider, otelPropagator)
                       ELSE PublishStep(@, otelProvider, otelPropagator)]
    /\ UNCHANGED <<optVars, initVars, healthVars, captureVars, httpVars,
                   dbVars, concVars, k8sVars, subs>>

\* call i has returned, or its panic has left it
BusReturn(i) ==
    /\ busCalls[i].pc = "done"
    /\ busCalls' = SubSeq(busCalls, 1, i - 1)
                      \o SubSeq(busCalls, i + 1, Len(busCalls))
    /\ UNCHANGED <<optVars, initVars, healthVars, captureVars, httpVars,
                   dbVars, concVars, k8sVars, subs>>

NextNATS ==
    \/ \E setup \in TracerSetups : SetupTracer(setup[1], setup[2])
    \/ \E input \in PublishInputs : Publish(input)
    \/ \E input \in PublishMsgInputs : PublishMsg(input)
    \/ \E ok \in BOOLEAN : Subscribe(ok)
    \/ \E ok \in BOOLEAN : QueueSubscribe(ok)
    \/ \E i \in DOMAIN subs, header \in DeliveredHeaders,
          inner \in {"returns", "panics"} : Deliver(i, header, inner)
    \/ \E i \in DOMAIN busCalls : BusStep(i)
    \/ \E i \in DOMAIN busCalls : BusReturn(i)

SpecNATS == StartState /\ [][NextNATS]_vars

----------------------------------------------------------------------------
(* SpecHeartbeat: SpecHealth with the ShutdownFunc called and with time    *)
(* going on after the heartbeat goroutines have returned.  Messages        *)
(* published are delivered in the end, and time passes.                    *)

\* every heartbeat goroutine started has returned
Exited ==
    /\ checkers # <<>>
    /\ \A i \in DOMAIN checkers : checkers[i].pc = "returned"

\* longer than the staleness window and the hour the wall clock is set back
LongWaitTicks == 3600 * TicksPerSecond + StaleTicks + TicksPerSecond

\* a long time passes with no heartbeat goroutine left and no message pending
LongWait ==
    /\ Exited
    /\ inflight = 0
    /\ LastHealthCheckEvent # <<>>
    /\ now < Parse(LastHealthCheckEvent) + LongWaitTicks
    /\ now' = now + LongWaitTicks
    /\ UNCHANGED <<inflight, LastHealthCheckEvent, advances, req, w, optVars,
                   libVars, initVars>>

NextHeartbeat ==
    \/ InitCallHealth
    \/ CallShutdown
    \/ \E i \in 1..Len(checkers), ok \in BOOLEAN : HealthzEventCheckerSubscribe(i, ok)
    \/ \E i \in 1..Len(checkers), ok \in BOOLEAN : HealthzEventCheckerPublish(i, ok)
    \/ HealthzEventCallback
    \/ Tick(SleepTicks)
    \/ LongWait
    \/ NewRecorder
    \/ \E a \in AnswersFor(TelemetryConfig) : HealthzEndpointHandler("GET", a.db, a.bus)

SpecHeartbeat ==
    /\ StartState
    /\ [][NextHeartbeat]_vars
    /\ WF_vars(HealthzEventCallback)
    /\ WF_vars(LongWait)

----------------------------------------------------------------------------
(* SpecTimely: the heartbeat with the bus reachable, no subscribe and no   *)
(* publish failing, every turn of the loop on time and every liveness      *)
(* message delivered less than four minutes after it was published.        *)

\* the delay a delivery stays below: the staleness window less one sleep
DeliveryTicks == StaleTicks - SleepTicks

\* the clock of this specification stops a staleness window after the
\* wall clock was set back
TimelyHorizon == FallBackAt + StaleTicks

\* half a sleep, a sleep
TimelySteps == {SleepTicks \div 2, SleepTicks}

\* time passes, but not beyond the moment a loop is to act or a message is
\* to have been delivered
TimelyTick(d) ==
    /\ now + d <= TimelyHorizon
    /\ \A i \in DOMAIN checkers :
          /\ checkers[i].pc # "subscribe"
          /\ checkers[i].pc = "publish" => now + d <= checkers[i].wake
          /\ inflight > 0 /\ checkers[i].subscribed
                => now + d < checkers[i].wake - SleepTicks + DeliveryTicks
    /\ now' = now + d
    /\ UNCHANGED <<inflight, LastHealthCheckEvent, advances, req, w, optVars,
                   libVars, initVars>>

NextTimely ==
    \/ InitCallHealth
    \/ \E i \in 1..Len(checkers) : HealthzEventCheckerSubscribe(i, TRUE)
    \/ \E i \in 1..Len(checkers) : HealthzEventCheckerPublish(i, TRUE)
    \/ HealthzEventCallback
    \/ \E d \in TimelySteps : TimelyTick(d)
    \/ NewRecorder
    \/ \E db \in {a.db : a \in AnswersFor(TelemetryConfig)} :
          HealthzEndpointHandler("GET", db, TRUE)

SpecTimely == StartState /\ [][NextTimely]_vars

----------------------------------------------------------------------------
(* SpecBringUps: Init called again and again with the bus enabled or not,  *)
(* the ShutdownFunc of the last call, and the heartbeat goroutines.        *)

\* Init calls made in one behaviour
MaxBringUps == 2

InitCallBringUp ==
    /\ initCalls < MaxBringUps
    /\ \E opts \in HealthOptSeqs :
          \E out \in OutcomesFor(opts) : Init("svc", "test", opts, out)

NextBringUps ==
    \/ InitCallBringUp
    \/ CallShutdown
    \/ \E i \in 1..Len(checkers), ok \in BOOLEAN : HealthzEventCheckerSubscribe(i, ok)
    \/ \E i \in 1..Len(checkers), ok \in BOOLEAN : HealthzEventCheckerPublish(i, ok)
    \/ HealthzEventCallback

SpecBringUps == StartState /\ [][NextBringUps]_vars

----------------------------------------------------------------------------
(* What an option list asks for, read off the list itself.                 *)

ConfigField(kind) ==
    CASE kind = "WithSlog"   -> "SlogConfig"
      [] kind = "WithSentry" -> "SentryConfig"
      [] kind = "WithTrace"  -> "TraceConfig"
      [] kind = "WithMySQL"  -> "MysqlConfig"
      [] kind = "WithNATS"   -> "NatsConfig"

EnabledField(kind) ==
    CASE kind = "WithSlog"   -> "SlogEnabled"
      [] kind = "WithSentry" -> "SentryEnabled"
      [] kind = "WithTrace"  -> "TraceEnabled"
      [] kind = "WithMySQL"  -> "MysqlEnabled"
      [] kind = "WithNATS"   -> "NatsEnabled"

\* positions of the options of one integration
OptionsOf(opts, kind) == {i \in 1..Len(opts) : opts[i].kind = kind}

\* positions <<i, j>> of the sub-options that set field f of one integration
SettersOf(opts, kind, f) ==
    {p \in (1..Len(opts)) \X (1..MaxSubs + 1) :
        /\ opts[p[1]].kind = kind
        /\ p[2] <= Len(opts[p[1]].opts)
        /\ opts[p[1]].opts[p[2]].field = f}

Later(p, q) == p[1] > q[1] \/ (p[1] = q[1] /\ p[2] >= q[2])

LastOf(S) == CHOOSE p \in S : \A q \in S : Later(p, q)

MaxOf(S) == CHOOSE i \in S : \A j \in S : i >= j

\* the value the last sub-option anywhere in the list gave to the field
LastSetAnywhere(opts, kind, f) ==
    LET S == SettersOf(opts, kind, f)
    IN  IF S = {} THEN ZeroConfig[ConfigField(kind)][f]
        ELSE opts[LastOf(S)[1]].opts[LastOf(S)[2]].value

\* the value the last of these sub-options that sets the field gives it
LastValue(subopts, f, zero) ==
    IF \A j \in 1..Len(subopts) : subopts[j].field # f THEN zero
    ELSE subopts[MaxOf({j \in 1..Len(subopts) : subopts[j].field = f})].value

\* the value the last With... option of the integration gave to the field
LastSetInLastOption(opts, kind, f) ==
    IF \A i \in 1..Len(opts) : opts[i].kind # kind
    THEN ZeroConfig[ConfigField(kind)][f]
    ELSE LastValue(opts[MaxOf(OptionsOf(opts, kind))].opts, f,
                   ZeroConfig[ConfigField(kind)][f])

FlagsAsAsked(cfg, opts) ==
    \A kind \in Kinds : cfg[EnabledField(kind)] = (OptionsOf(opts, kind) # {})

----------------------------------------------------------------------------
(* C2 *)

\* C2, as stated: after folding any list of options over an empty config,
\* every settings field holds the value of the last sub-option in the whole
\* list that set it, and the zero value when none did.
C2_LastSubOptionAnywhereWins ==
    /\ FlagsAsAsked(draft, applied)
    /\ \A kind \in Kinds :
        \A f \in DOMAIN ZeroConfig[ConfigField(kind)] :
            draft[ConfigField(kind)][f] = LastSetAnywhere(applied, kind, f)

\* C2, amended: every settings field holds the value of the last sub-option
\* that set it inside the last With... option of its integration, and the
\* zero value when that option did not set it; a flag is set exactly when
\* an option of its integration occurs.
C2_LastOptionOfIntegrationWins ==
    /\ FlagsAsAsked(draft, applied)
    /\ draft.ServiceName = "" /\ draft.Environment = ""
    /\ \A kind \in Kinds :
        \A f \in DOMAIN ZeroConfig[ConfigField(kind)] :
            draft[ConfigField(kind)][f] = LastSetInLastOption(applied, kind, f)

\* WithSentry(SentryDSN(d)) then WithSentry(SentryEnvironment(e)) was folded:
\* the DSN is back to its zero value.
C2_Witness ==
    /\ Len(applied) = 2
    /\ applied[1] = Opt("WithSentry", <<SentryDSN("d1")>>)
    /\ applied[2] = Opt("WithSentry", <<SentryEnvironment("e1")>>)
    /\ draft.SentryConfig.DSN = ""
    /\ draft.SentryConfig.Environment = "e1"

----------------------------------------------------------------------------
(* C1, C3..C7: Init                                                        *)

\* the config the latest Init call was asked for, read off its arguments
AskedConfig ==
    [f \in DOMAIN ZeroConfig |->
        CASE f = "ServiceName" -> initArgs.serviceName
          [] f = "Environment" -> initArgs.environment
          [] f \in {EnabledField(k) : k \in Kinds} ->
                \E k \in Kinds : EnabledField(k) = f /\ OptionsOf(initArgs.opts, k) # {}
          [] OTHER ->
                LET k == CHOOSE k \in Kinds : ConfigField(k) = f
                IN  [g \in DOMAIN ZeroConfig[f] |->
                        LastSetInLastOption(initArgs.opts, k, g)]]

Returned == initCalls > 0

\* the step is a call of Init, of the ShutdownFunc
IsInitStep == initCalls' = initCalls + 1
IsShutdownStep == shutdownCalls' = shutdownCalls + 1

\* the integrations Init brings up that can fail, in the order of the code
Integrations == <<"NATS", "Sentry", "Trace">>

KindOf(x) ==
    CASE x = "NATS"   -> "WithNATS"
      [] x = "Sentry" -> "WithSentry"
      [] x = "Trace"  -> "WithTrace"

RequiredFieldName(x) ==
    CASE x = "NATS"   -> "URL"
      [] x = "Sentry" -> "DSN"
      [] x = "Trace"  -> "ExporterURL"

Asked(kind) == \E i \in 1..Len(initArgs.opts) : initArgs.opts[i].kind = kind

IsEnabled(x) == Asked(KindOf(x))

RequiredField(x) ==
    LastSetInLastOption(initArgs.opts, KindOf(x), RequiredFieldName(x))

MissingFieldError(x) ==
    CASE x = "NATS"   -> ErrNatsURL
      [] x = "Sentry" -> ErrSentryDSN
      [] x = "Trace"  -> ErrExporterURL

AttemptError(x) ==
    CASE x = "NATS"   -> ErrNatsConnect
      [] x = "Sentry" -> ErrSentryInit
      [] x = "Trace"  -> ErrExporter

Attempt(x) ==
    CASE x = "NATS"   -> "nats.Connect"
      [] x = "Sentry" -> "sentry.Init"
      [] x = "Trace"  -> "otlptracegrpc.New"

Answer(x) ==
    CASE x = "NATS"   -> initArgs.out.nats
      [] x = "Sentry" -> initArgs.out.sentry
      [] x = "Trace"  -> initArgs.out.trace

InLog(event) == \E i \in 1..Len(initLog) : initLog[i] = event

FieldMissing(i) == IsEnabled(Integrations[i]) /\ RequiredField(Integrations[i]) = ""
Fails(i) == IsEnabled(Integrations[i]) /\ (FieldMissing(i) \/ ~Answer(Integrations[i]))
FailsFirst(i) == Fails(i) /\ \A j \in 1..(i - 1) : ~Fails(j)
ErrorOf(i) ==
    IF FieldMissing(i) THEN MissingFieldError(Integrations[i])
    ELSE AttemptError(Integrations[i])

\* C1: calling the callback of a successful Init flushes Sentry iff Sentry
\* was enabled and shuts the tracer provider down iff Trace was enabled,
\* and touches nothing of slog, NATS or MySQL.
C1_ShutdownCoversWhatWasEnabled ==
    [][IsShutdownStep =>
        /\ (sentryFlushes' = sentryFlushes + 1) <=> Asked("WithSentry")
        /\ (sentryFlushes' = sentryFlushes) <=> ~Asked("WithSentry")
        /\ (tpState' = "shutdown") <=> Asked("WithTrace")
        /\ UNCHANGED <<slogDefault, natsConns, checkers, TelemetryConfig>>]_vars

\* C3, as stated: an enabled integration whose required field is empty
\* makes Init return the error naming that field and a nil callback,
\* without the integration's connection or initialisation being tried.
C3_MissingFieldIsTheError ==
    Returned =>
        \A i \in 1..Len(Integrations) :
            FieldMissing(i) =>
                /\ initErr = MissingFieldError(Integrations[i])
                /\ shutdown.nil
                /\ ~InLog(Attempt(Integrations[i]))

\* C3, amended: such a call returns a non-nil error and a nil callback and
\* never tries that integration; the error names the missing field unless
\* an integration earlier in the bring-up order failed, and then it is the
\* error of the first one that failed.
C3_MissingFieldFailsInit ==
    Returned =>
        \A i \in 1..Len(Integrations) :
            FieldMissing(i) =>
                /\ initErr # NoError
                /\ shutdown.nil
                /\ ~InLog(Attempt(Integrations[i]))
                /\ (FailsFirst(i) => initErr = MissingFieldError(Integrations[i]))
                /\ \A j \in 1..(i - 1) : FailsFirst(j) => initErr = ErrorOf(j)

\* Init returned with each of the three fields missing in some call, and
\* with a field missing behind an earlier failure.
C3_Witness ==
    /\ Returned
    /\ FieldMissing(2) /\ Fails(1) /\ ~FieldMissing(1)
    /\ initErr = ErrNatsConnect
    /\ shutdown.nil

\* C4: what one Init call does is, in this order, bus, log facade, error
\* reporting, tracing, each at most once; the first integration that
\* fails ends the call with its error and nothing later is tried; and
\* what the call started stays: connections and heartbeat goroutines only
\* grow, also when the call returns an error.
BringUpOrder ==
    <<"TelemetryConfig=", "nats.Connect", "go HealthzEventChecker",
      "slog.SetDefault", "sentry.Init", "otlptracegrpc.New">>

Position(event) == CHOOSE k \in 1..Len(BringUpOrder) : BringUpOrder[k] = event

InOrder(log) ==
    /\ \A i \in 1..Len(log) : \E k \in 1..Len(BringUpOrder) : BringUpOrder[k] = log[i]
    /\ \A i \in 1..Len(log), j \in 1..Len(log) :
        i < j => Position(log[i]) < Position(log[j])

FirstFailureEnds ==
    \A missing \in {[i \in 1..Len(Integrations) |-> FieldMissing(i)]},
       fails \in {[i \in 1..Len(Integrations) |-> Fails(i)]} :
        /\ \A i \in 1..Len(Integrations) :
            (fails[i] /\ \A j \in 1..(i - 1) : ~fails[j]) =>
                /\ initErr = IF missing[i] THEN MissingFieldError(Integrations[i])
                             ELSE AttemptError(Integrations[i])
                /\ shutdown.nil
                /\ \A e \in 1..Len(initLog) :
                    Position(initLog[e]) <= Position(Attempt(Integrations[i]))
                /\ \A j \in (i + 1)..Len(Integrations) : ~InLog(Attempt(Integrations[j]))
                /\ (i > 1 /\ Asked("WithSlog") => InLog("slog.SetDefault"))
                /\ (i = 1 => ~InLog("slog.SetDefault"))
                /\ \A j \in 1..(i - 1) :
                    IsEnabled(Integrations[j]) => InLog(Attempt(Integrations[j]))
        /\ (\A i \in 1..Len(Integrations) : ~fails[i]) =>
                /\ initErr = NoError
                /\ \A j \in 1..Len(Integrations) :
                    IsEnabled(Integrations[j]) <=> InLog(Attempt(Integrations[j]))
                /\ Asked("WithSlog") <=> InLog("slog.SetDefault")

IsPrefix(s, t) == Len(s) <= Len(t) /\ \A i \in 1..Len(s) : s[i] = t[i]

C4_OrderedFailFastNoRollback ==
    [][IsInitStep =>
        /\ InOrder(initLog')
        /\ FirstFailureEnds'
        /\ IsPrefix(checkers, checkers')
        /\ \A connected \in {IsEnabled(Integrations[1])' /\ ~Fails(1)'} :
               /\ natsConns' = natsConns + (IF connected THEN 1 ELSE 0)
               /\ Len(checkers') = Len(checkers) + (IF connected THEN 1 ELSE 0)
               /\ connected =>
                    checkers'[Len(checkers')] = NewChecker(initArgs'.serviceName)]_vars

\* Init connected to the bus and started the heartbeat, then failed on
\* Sentry: it returned an error and a nil callback, the connection and
\* the goroutine are still there.
C4_Witness ==
    /\ Returned
    /\ initErr = ErrSentryInit
    /\ shutdown.nil
    /\ initLog = <<"TelemetryConfig=", "nats.Connect", "go HealthzEventChecker",
                   "slog.SetDefault", "sentry.Init">>
    /\ natsConns = 1
    /\ Len(checkers) = 1

\* C5: Init with no options, or with WithSlog alone, returns a nil error
\* and a non-nil callback, and every call of that callback completes and
\* leaves the whole state of the process as it was.
OnlySlog(opts) == \A i \in 1..Len(opts) : opts[i].kind = "WithSlog"

\* a call of the callback panics when there is no function to call, or
\* when it reaches tp.Shutdown with a nil tp
ShutdownPanics == shutdown.nil \/ (shutdown.tp /\ tpState = "nil")

C5_MinimalInitAndIdempotentShutdown ==
    [][/\ (IsInitStep /\ OnlySlog(initArgs'.opts)) =>
            (initErr' = NoError /\ ~shutdown'.nil /\ ~ShutdownPanics')
       /\ (IsShutdownStep /\ OnlySlog(initArgs.opts)) =>
            /\ ~ShutdownPanics
            /\ UNCHANGED <<TelemetryConfig, initCalls, initArgs, initLog, initErr,
                           shutdown, slogDefault, sentryClient, sentryFlushes,
                           otelProvider, otelPropagator, tpState, natsConns,
                           checkers,
                           optVars, healthVars>>]_vars

\* the callback of Init(name, env, WithSlog()) has been called twice
C5_Witness ==
    /\ Returned
    /\ initArgs.opts = <<Opt("WithSlog", <<>>)>>
    /\ initErr = NoError
    /\ shutdownCalls = 2

\* C6: TelemetryConfig is assigned before anything is brought up, so once
\* Init has returned, with or without an error, TelemetryConfig is the
\* config this call's options and names ask for.
C6_ConfigPublishedFirst ==
    Returned =>
        /\ TelemetryConfig = AskedConfig
        /\ Len(initLog) >= 1
        /\ initLog[1] = "TelemetryConfig="
        /\ \A i \in 2..Len(initLog) : initLog[i] # "TelemetryConfig="

\* Init failed on the bus connection and TelemetryConfig shows the bus
\* enabled with the URL that was given.
C6_Witness ==
    /\ Returned
    /\ initErr = ErrNatsConnect
    /\ TelemetryConfig.NatsEnabled
    /\ TelemetryConfig.NatsConfig.URL = "nats://bus:4222"
    /\ TelemetryConfig.ServiceName = "svc"

----------------------------------------------------------------------------
(* The health endpoint: what a request is answered.                        *)

\* the phrase occurs in the text
Contains(body, phrase) == \E i \in 1..Len(body) : body[i] = phrase

\* the text begins with the phrase
StartsWith(body, phrase) == Len(body) > 0 /\ body[1] = phrase

\* a step in which HealthzEndpointHandler serves a request
IsHealthStep == ~w.written /\ w'.written

NoIntegrationEnabled ==
    /\ ~TelemetryConfig.MysqlEnabled
    /\ ~TelemetryConfig.NatsEnabled
    /\ ~TelemetryConfig.SentryEnabled
    /\ ~TelemetryConfig.SlogEnabled
    /\ ~TelemetryConfig.TraceEnabled

\* the database check of the request passed or was not made
DatabasePassed(r) == ~TelemetryConfig.MysqlEnabled \/ r.db = "ok"

\* C8: a request made with whatever method while no integration is enabled
\* is answered 200 with a body containing "status", "ok" and
\* "Service is healthy", and neither the database nor the bus is probed.
C8_NothingEnabledIsHealthy ==
    [][IsHealthStep /\ NoIntegrationEnabled
          => /\ req'.method \in Methods
             /\ w'.code = 200
             /\ Contains(w'.body, "status")
             /\ Contains(w'.body, "ok")
             /\ Contains(w'.body, "Service is healthy")
             /\ w'.probes = <<>>]_vars

\* Init was called without options and a DELETE request was answered 200.
C8_Witness ==
    /\ initCalls > 0
    /\ NoIntegrationEnabled
    /\ w.written
    /\ req.method = "DELETE"
    /\ w.code = 200
    /\ w.probes = <<>>

\* C9: with the database enabled and its connection or ping failing, the
\* request is answered 500 with a body starting "MySQL connection failed",
\* and nothing else is done: the database probe is the only probe and the
\* last liveness event is not read, whatever the bus flag, the bus answer
\* and the timestamp are.
C9_DatabaseFailureStops ==
    [][IsHealthStep /\ TelemetryConfig.MysqlEnabled /\ req'.db # "ok"
          => /\ w'.code = 500
             /\ StartsWith(w'.body, "MySQL connection failed")
             /\ Len(w'.probes) = 1
             /\ w'.probes[1].target = "mysql"
             /\ ~w'.readEvent]_vars

\* The ping failed while the bus was enabled, reachable and a liveness
\* event had been recorded.
C9_Witness ==
    /\ w.written
    /\ TelemetryConfig.MysqlEnabled
    /\ TelemetryConfig.NatsEnabled
    /\ req.db = "ping fails"
    /\ req.bus
    /\ LastHealthCheckEvent # <<>>
    /\ w.code = 500
    /\ StartsWith(w.body, "MySQL connection failed")

\* C10: with the bus enabled, the database check passed or off, and the
\* probe connection to the bus failing, the request is answered 500 with a
\* body containing "NATS connection failed" and the last liveness event is
\* not read, whether it is empty, fresh or stale.
C10_BusFailureBeforeTimestamp ==
    [][IsHealthStep /\ TelemetryConfig.NatsEnabled /\ DatabasePassed(req')
                    /\ ~req'.bus
          => /\ w'.code = 500
             /\ Contains(w'.body, "NATS connection failed")
             /\ ~w'.readEvent]_vars

\* The bus probe failed at a moment when the recorded event was stale.
C10_Witness ==
    /\ w.written
    /\ req.at = now
    /\ TelemetryConfig.NatsEnabled
    /\ DatabasePassed(req)
    /\ ~req.bus
    /\ LastHealthCheckEvent # <<>>
    /\ StrLess(LastHealthCheckEvent, Format(now - StaleTicks))
    /\ w.code = 500
    /\ Contains(w.body, "NATS connection failed")

\* the bus is enabled and answers the probe of the request
BusReachable(r) == TelemetryConfig.NatsEnabled /\ r.bus

\* C11: with the bus enabled and reachable, the database check passed or
\* off, and no liveness event ever recorded, the request is answered 503
\* with a body containing "No health check event received yet".
C11_NoEventYetIs503 ==
    [][IsHealthStep /\ BusReachable(req') /\ DatabasePassed(req')
                    /\ LastHealthCheckEvent = <<>>
          => /\ w'.code = 503
             /\ Contains(w'.body, "No health check event received yet")]_vars

\* Init connected to the bus, the heartbeat has not been heard yet, and a
\* request is answered 503 although the database and the bus answer.
C11_Witness ==
    /\ w.written
    /\ natsConns > 0
    /\ TelemetryConfig.MysqlEnabled
    /\ req.db = "ok"
    /\ BusReachable(req)
    /\ LastHealthCheckEvent = <<>>
    /\ w.code = 503
    /\ Contains(w.body, "No health check event received yet")

\* how long before the present the last liveness event was recorded
EventAge == now - Parse(LastHealthCheckEvent)

\* C12: with the bus enabled and reachable, the database check passed or
\* off, and the last liveness event recorded more than 5 minutes before
\* the request, the request is answered 503 with a body containing
\* "older than 5 minutes", for every such pair of times.
C12_StaleEventIs503 ==
    [][IsHealthStep /\ BusReachable(req') /\ DatabasePassed(req')
                    /\ LastHealthCheckEvent # <<>>
                    /\ EventAge > StaleTicks
          => /\ w'.code = 503
             /\ Contains(w'.body, "older than 5 minutes")]_vars

\* every enabled check of the request passes: the database answers or is
\* off, and the bus is off or answers with a liveness event recorded no
\* more than 5 minutes ago
AllChecksPass(r) ==
    /\ DatabasePassed(r)
    /\ \/ ~TelemetryConfig.NatsEnabled
       \/ /\ r.bus
          /\ LastHealthCheckEvent # <<>>
          /\ EventAge <= StaleTicks

\* C13: a request is answered 200 with the fixed body
\* {"status": "ok", "message": "Service is healthy"} when every enabled
\* check passes, and is never answered 200 when an enabled check fails.
C13_HealthyIffAllChecksPass ==
    [][IsHealthStep
          => /\ AllChecksPass(req') => w'.code = 200 /\ w'.body = HealthyBody
             /\ w'.code = 200 => AllChecksPass(req')]_vars

----------------------------------------------------------------------------
(* CaptureError: what a call does.                                         *)

\* a step in which CaptureError is called
IsCaptureStep == captured'.n = captured.n + 1

\* the calls the step added
Added == SubSeq(effects', Len(effects) + 1, Len(effects'))

\* the log lines among some calls
LogLines(s) == SelectSeq(s, LAMBDA e : e.call = "slog.Error")

\* C14: CaptureError with a nil error does nothing, whatever flags are
\* enabled: no breadcrumb, no captured exception, no call on a span, no
\* log line, and nothing else of the process changes.
C14_NilErrorIsNoOp ==
    [][IsCaptureStep /\ captured'.err = NoError
          => /\ effects' = effects
             /\ UNCHANGED <<optVars, initVars, healthVars>>]_vars

\* CaptureError(ctx, nil, message) was called with Sentry, Trace and Slog
\* all enabled and a context carrying both spans, and nothing was done.
C14_Witness ==
    /\ captured.n > 0
    /\ captured.err = NoError
    /\ captured.ctx.otel /\ captured.ctx.sentry
    /\ TelemetryConfig.SentryEnabled
    /\ TelemetryConfig.TraceEnabled
    /\ TelemetryConfig.SlogEnabled
    /\ effects = <<>>

\* the one log line of a call: error level, the message and the error
IsTheLogLine(s) ==
    /\ Len(s) = 1
    /\ s[1].level = "ERROR"
    /\ s[1].message = captured'.message
    /\ s[1].error = captured'.err

----------------------------------------------------------------------------
(* httphelper: what the wrappers do around the call they wrap.             *)

\* how often a call was made, and whether every a came before every b
Occurrences(log, e) == Cardinality({i \in DOMAIN log : log[i] = e})
Before(log, a, b) ==
    \A i \in DOMAIN log, j \in DOMAIN log : log[i] = a /\ log[j] = b => i < j

CallsOf(kind) == {calls[i] : i \in {j \in DOMAIN calls : calls[j].kind = kind}}

\* C16: for every request the returned handler starts the span before it
\* invokes the inner handler, invokes the inner handler exactly once, with
\* the context tracer.Start derived, and ends the span after the inner
\* handler has returned; when the inner handler panics the span is ended
\* all the same and the panic reaches the caller.
C16_SpanBracketsInnerHandler ==
    \A c \in CallsOf("handler") :
        /\ Occurrences(c.log, "handler") <= 1
        /\ Occurrences(c.log, "handler") = 1
              => /\ Occurrences(c.log, "tracer.Start") = 1
                 /\ Before(c.log, "tracer.Start", "handler")
                 /\ c.ctx.span
                 /\ c.innerCtx = c.ctx
        /\ Occurrences(c.log, "span.End") <= 1
        /\ Occurrences(c.log, "span.End") = 1
              => /\ Occurrences(c.log, "handler") = 1
                 /\ Before(c.log, "handler", "span.End")
        /\ c.pc = "done"
              => /\ Occurrences(c.log, "handler") = 1
                 /\ c.span = "ended"
                 /\ c.panic <=> c.input.inner = "panics"

\* A request whose inner handler panicked: the span was started, the inner
\* handler invoked, the span ended, and the panic is on its way up.
C16_Witness ==
    \E c \in CallsOf("handler") :
        /\ c.pc = "done"
        /\ c.input.inner = "panics"
        /\ c.log = <<"propagator.Extract", "tracer.Start", "handler", "span.End">>
        /\ c.span = "ended"
        /\ c.panic

\* the client was given and did not panic
ClientAnswered(c) == c.pc = "done" /\ c.input.client

\* C17: HTTPDo hands back what the client produced: a response of any
\* status, 4xx and 5xx included, comes back with a nil error and that
\* status; a transport failure or a cancelled context comes back as an
\* error and a nil response; either way the span is ended before HTTPDo
\* returns.
C17_ReturnsClientResult ==
    \A c \in CallsOf("do") :
        ClientAnswered(c)
            => /\ ~c.input.cancelled /\ c.input.answer.ok
                    => /\ c.err = NoError
                       /\ c.status = c.input.answer.status
               /\ c.input.cancelled \/ ~c.input.answer.ok
                    => /\ c.err # NoError
                       /\ c.status = 0
               /\ ~c.panic
               /\ c.span = "ended"
               /\ Before(c.log, "client.Do", "span.End")

\* A 500 response came back from HTTPDo with a nil error and the span ended.
C17_Witness ==
    \E c \in CallsOf("do") :
        /\ c.pc = "done"
        /\ c.input.answer = Response(500)
        /\ c.reached
        /\ c.status = 500
        /\ c.err = NoError
        /\ c.span = "ended"

\* the server received the request of a call made with an active span
SeenWithActiveSpan(c) == c.reached /\ c.input.parent

\* C18: HTTPDo injects the trace context of its span into the request
\* before the client gets it, so a request made with an active trace
\* context always reaches the server with a Traceparent header.
C18_AlwaysTraceparent ==
    \A c \in CallsOf("do") :
        /\ Before(c.log, "propagator.Inject", "client.Do")
        /\ SeenWithActiveSpan(c) => "Traceparent" \in c.seen

\* C18, amended: HTTPDo calls Inject on the registered propagator before
\* the client gets the request; the request of a call made with an active
\* trace context reaches the server with a Traceparent header when that
\* propagator is the trace-context one (as Init with tracing, or the tests'
\* setup, registers), with Sentry's headers and no Traceparent under the
\* Sentry propagator, and with no header added when none was registered.
C18_TraceparentUnderTraceContext ==
    \A c \in CallsOf("do") :
        /\ Before(c.log, "propagator.Inject", "client.Do")
        /\ c.reached => Occurrences(c.log, "propagator.Inject") = 1
        /\ SeenWithActiveSpan(c)
              => /\ c.propagator = "tracecontext" => "Traceparent" \in c.seen
                 /\ c.propagator = "sentry"
                       => c.seen = {"Sentry-Trace", "Baggage"}
                 /\ c.propagator = "noop" => c.seen = {}

\* The server received, with a Traceparent header, the request of a call
\* made with an active span while the trace-context propagator was
\* registered.
C18_Witness ==
    \E c \in CallsOf("do") :
        /\ SeenWithActiveSpan(c)
        /\ c.propagator = "tracecontext"
        /\ "Traceparent" \in c.seen
        /\ c.log = <<"tracer.Start", "propagator.Inject", "client.Do">>

----------------------------------------------------------------------------
(* mysqlhelper: the errors it returns.                                     *)

\* C20: every error Connect or CheckConnection returns says "failed to
\* connect to MySQL", whether opening the connection or the ping failed,
\* and Connect returns no handle with an error.
C20_ErrorsSayFailedToConnect ==
    dbCall.n > 0 /\ dbCall.err # <<>>
        => /\ Contains(dbCall.err, "failed to connect to MySQL")
           /\ dbCall.fn = "Connect" => ~dbCall.db

----------------------------------------------------------------------------
(* Init called from several goroutines.                                    *)

\* goroutine i is in the middle of copying its cfg into TelemetryConfig
Writing(i) == inits[i].pc = "write" /\ inits[i].written > 0

\* the arguments and answers of goroutine i let a call made alone succeed
SucceedsAlone(i) ==
    InitStages(Globals, inits[i].cfg, inits[i].environment, inits[i].out).err
        = NoError

AllReturned == \A i \in DOMAIN inits : inits[i].pc = "done"

\* the results of each call and the final TelemetryConfig
ConcurrentInitOutcome ==
    /\ \A i \in DOMAIN inits :
          inits[i].pc = "done" /\ SucceedsAlone(i)
              => inits[i].err = NoError /\ ~inits[i].shutdown.nil
    /\ Len(inits) > 1 /\ AllReturned
          => \A i \in DOMAIN inits : TelemetryConfig = inits[i].cfg

\* C19: Init calls made concurrently with the same options do not race: no
\* two of them write TelemetryConfig at once, each call that would succeed
\* alone returns a nil error and a ShutdownFunc, and when all have returned
\* TelemetryConfig is the configuration built from the options.
C19_ConcurrentInitDoesNotRace ==
    /\ \A i \in DOMAIN inits, j \in DOMAIN inits :
          i # j => ~(Writing(i) /\ Writing(j))
    /\ ConcurrentInitOutcome

----------------------------------------------------------------------------
(* k8shelper: the environment names.                                       *)

\* which of "prod", "test", "staging" the namespace contains
Matched(namespace) ==
    {e \in {"production", "testing", "staging"} :
        StringsContains(namespace, CASE e = "production" -> Prod
                                     [] e = "testing" -> Test
                                     [] OTHER -> Staging)}

\* what the environment mapping says of a namespace
Documented(namespace, environment) ==
    /\ environment \in {"development", "testing", "staging", "production"}
    /\ Cardinality(Matched(namespace)) = 1 => environment \in Matched(namespace)
    /\ Matched(namespace) = {} => environment = "development"

\* the calls of one revision of the package return what is documented
EnvironmentAsDocumented(revision) ==
    k8sCall.n > 0 /\ k8sCall.revision = revision
        => Documented(k8sCall.namespace, k8sCall.environment)

\* C21: GetEnvironment returns one of "development", "testing", "staging",
\* "production": the one named by the only substring of "prod", "test",
\* "staging" the namespace contains, and "development" for every other
\* namespace and for a namespace file that cannot be read.
C21_EnvironmentAsDocumented ==
    EnvironmentAsDocumented("ifs") /\ EnvironmentAsDocumented("local")

----------------------------------------------------------------------------
(* CaptureError: which actions, in which order.                            *)

\* the names of the calls made on the given targets, in order
CallsOn(s, targets) ==
    LET on == SelectSeq(s, LAMBDA e : e.target \in targets)
    IN  [i \in DOMAIN on |-> on[i].call]

\* reporting is 1, tracing 2, logging 3
StageOf(e) ==
    CASE e.target \in {"hub", "sentry span"} -> 1
      [] e.target \in {"span", "noop span"} -> 2
      [] OTHER -> 3

\* C22: for a non-nil error CaptureError records the breadcrumb and then
\* captures the exception exactly when SentryEnabled, records the error on
\* the span and sets its status to error exactly when TraceEnabled, does
\* what it does in the order reporting, tracing, logging, and no action
\* keeps a later one from happening.
C22_GatedAndOrdered ==
    [][IsCaptureStep /\ captured'.err # NoError
          => \A a \in {Added} :
                /\ CallsOn(a, {"hub"}) =
                      IF TelemetryConfig.SentryEnabled
                      THEN <<"sentry.AddBreadcrumb", "sentry.CaptureException">>
                      ELSE <<>>
                /\ CallsOn(a, {"span", "noop span"}) =
                      IF TelemetryConfig.TraceEnabled
                      THEN <<"span.RecordError", "span.SetStatus">>
                      ELSE <<>>
                /\ \A i \in DOMAIN a :
                      a[i].call = "span.SetStatus" => a[i].level = "Error"
                /\ \A i \in DOMAIN a, j \in DOMAIN a :
                      i < j => StageOf(a[i]) <= StageOf(a[j])
                /\ TelemetryConfig.SlogEnabled
                      => CallsOn(a, {"slog"}) = <<"slog.Error">>]_vars

\* An error was captured with the three flags set and a context carrying
\* both spans: hub, Sentry span, span and slog were called in that order.
C22_Witness ==
    /\ captured.n = 1
    /\ captured.err # NoError
    /\ captured.ctx.otel /\ captured.ctx.sentry
    /\ TelemetryConfig.SentryEnabled
    /\ TelemetryConfig.TraceEnabled
    /\ TelemetryConfig.SlogEnabled
    /\ [i \in DOMAIN effects |-> effects[i].call] =
          <<"sentry.AddBreadcrumb", "sentry.CaptureException",
            "sentrySpan.Status=", "span.RecordError", "span.SetStatus",
            "slog.Error">>

----------------------------------------------------------------------------
(* natshelper: what the wrappers do around the bus client.                 *)

BusCallsOf(kinds) ==
    {busCalls[i] : i \in {j \in DOMAIN busCalls : busCalls[j].kind \in kinds}}

C24_CallbackAroundHandler ==
    [][/\ \A c \in BusCallsOf({"callback"})' :
             /\ \E i \in DOMAIN subs' : subs'[i] = c.input.sub
             /\ c.pc # "start"
                   => /\ Occurrences(c.log, "propagator.Extract")
                            = (IF c.input.header.nil THEN 0 ELSE 1)
                      /\ Before(c.log, "propagator.Extract", "tracer.Start")
                      /\ Occurrences(c.log, "tracer.Start") = 1
                      /\ c.ctx.span
                      /\ c.input.header.nil => ~c.ctx.remote
                      /\ c.ctx.remote => "Traceparent" \in c.input.header.keys
             /\ Occurrences(c.log, "handler")
                   = (IF c.pc \in {"end", "done"} THEN 1 ELSE 0)
             /\ c.pc \in {"end", "done"}
                   => /\ c.handlerCtx = c.ctx
                      /\ Before(c.log, "tracer.Start", "handler")
             /\ c.span = (IF c.pc = "start" THEN "none"
                          ELSE IF c.pc = "done" THEN "ended" ELSE "started")
             /\ c.pc = "done" => Before(c.log, "handler", "span.End")
       /\ Len(subs') > Len(subs)
             => /\ busCalls' = busCalls
                /\ subs'[Len(subs')] \in {"Subscribe", "QueueSubscribe"}]_vars

\* A message carrying a trace context was delivered to a subscription made
\* by QueueSubscribe under the trace-context propagator: the handler ran
\* once in the remote context and the span is ended.
C24_Witness ==
    \E c \in BusCallsOf({"callback"}) :
        /\ c.pc = "done"
        /\ c.input.sub = "QueueSubscribe"
        /\ c.ctx.remote
        /\ c.handlerCtx = c.ctx
        /\ Occurrences(c.log, "handler") = 1
        /\ c.span = "ended"

----------------------------------------------------------------------------
(* The heartbeat.                                                          *)

\* checker i has published: its next turn of the loop is a sleep later
Published(i) == checkers'[i].wake # checkers[i].wake

\* C25: after Init has connected to the bus the heartbeat loop subscribes
\* to the liveness subject of the service before it publishes for the first
\* time, then publishes a liveness message every 60 seconds; every liveness
\* message observed sets the last-event timestamp to the time of the
\* observation, and the subscription callback is its only writer: once
\* set, the timestamp is never empty again and never moves backwards.
C25_HeartbeatSetsTimestamp ==
    [][/\ \A i \in DOMAIN checkers :
             /\ Published(i)
                   => /\ checkers[i].subscribed
                      /\ now >= checkers[i].wake
                      /\ checkers'[i].wake = now + SleepTicks
                      /\ inflight' = inflight + Cardinality(Subscribers(checkers[i].subject))
             /\ checkers'[i].subscribed /\ ~checkers[i].subscribed
                   => checkers[i].wake = 0
             /\ checkers[i].subscribed => checkers'[i].subscribed
       /\ Len(checkers') > Len(checkers)
             => /\ natsConns' = natsConns + 1
                /\ Len(checkers') = Len(checkers) + 1
                /\ checkers'[Len(checkers')].pc = "subscribe"
                /\ ~checkers'[Len(checkers')].subscribed
                /\ checkers'[Len(checkers')].wake = 0
                /\ checkers'[Len(checkers')].subject = TelemetryConfig'.ServiceName
       /\ natsConns' # natsConns => Len(checkers') > Len(checkers)
       /\ inflight' < inflight => LastHealthCheckEvent' = Format(now)
       /\ LastHealthCheckEvent' # LastHealthCheckEvent
             => /\ inflight' < inflight
                /\ LastHealthCheckEvent' # <<>>
                /\ LastHealthCheckEvent # <<>>
                      => Parse(LastHealthCheckEvent') >= Parse(LastHealthCheckEvent)]_vars

\* The loop has published twice, the second time a sleep after the first,
\* and the second message has been observed at the present time.
C25_Witness ==
    /\ Len(checkers) = 1
    /\ checkers[1].subscribed
    /\ checkers[1].wake = StartTime + 2 * SleepTicks
    /\ inflight = 0
    /\ now > StartTime
    /\ LastHealthCheckEvent = Format(now)

\* what the endpoint answers to a request made now, given the probe answers
AnswerNow(db, bus) ==
    HealthzChecks(TelemetryConfig, LastHealthCheckEvent, now, db, bus)

\* checker i returns in this step
Returns(i) == checkers[i].pc # "returned" /\ checkers'[i].pc = "returned"

\* The heartbeat loop stops on a failed subscribe, without ever publishing,
\* or on a failed publish, and never publishes afterwards; neither the
\* ShutdownFunc nor another operation stops it.
HeartbeatStopsOnErrorOnly ==
    [][/\ \A i \in DOMAIN checkers :
             /\ Returns(i)
                   => /\ checkers'[i].wake = checkers[i].wake
                      /\ inflight' = inflight
                      /\ checkers[i].pc = "subscribe"
                            => checkers[i].wake = 0 /\ ~checkers'[i].subscribed
                      /\ UNCHANGED <<initCalls, shutdownCalls, now, w,
                                     LastHealthCheckEvent>>
             /\ checkers[i].pc = "returned" => checkers'[i] = checkers[i]
       /\ IsShutdownStep => checkers' = checkers /\ natsConns' = natsConns]_vars

\* C26 as stated: once the loop has stopped the endpoint with the bus
\* enabled answers 503 in the end and from then on, whatever the probes of
\* the request answer.
C26_Answers503WhateverTheProbes ==
    /\ HeartbeatStopsOnErrorOnly
    /\ <>[](Exited /\ TelemetryConfig.NatsEnabled
              => \A a \in AnswersFor(TelemetryConfig) :
                     AnswerNow(a.db, a.bus).code = 503)

\* C26: the heartbeat loop stops on an internal error only (a failed
\* subscribe, before any publish; a failed publish, after which it never
\* publishes again), and the ShutdownFunc and every other operation leave
\* it running; once every loop has stopped the timestamp is refreshed no
\* more, and the endpoint with the bus enabled in the end answers 503, and
\* from then on, to every request whose database and bus probes pass.
C26_StopsOnErrorThen503 ==
    /\ HeartbeatStopsOnErrorOnly
    /\ <>[](Exited /\ TelemetryConfig.NatsEnabled
              => AnswerNow("ok", TRUE).code = 503)

\* The loop has published, its message was observed, a later publish
\* failed and the loop returned; the ShutdownFunc was called; a long time
\* later a request whose probes pass is answered 503 for an old event.
C26_Witness ==
    /\ Exited
    /\ checkers[1].wake > 0
    /\ shutdownCalls > 0
    /\ LastHealthCheckEvent # <<>>
    /\ now >= Parse(LastHealthCheckEvent) + LongWaitTicks
    /\ w.written
    /\ req.at = now
    /\ req.bus
    /\ w.code = 503
    /\ Contains(w.body, "older than 5 minutes")

----------------------------------------------------------------------------
(* The health endpoint and the state of the process.                       *)

TimestampFresh ==
    LastHealthCheckEvent # <<>> => now - Parse(LastHealthCheckEvent) <= StaleTicks

\* C28: if the bus stays reachable, no publish fails and every liveness
\* message is delivered less than 4 minutes after it was published, then
\* from the first delivery on the timestamp is never more than 5 minutes
\* old, and no request, whichever side of a write of the timestamp it
\* reads on, is answered "No health check event received yet" or "older
\* than 5 minutes" again.
C28_NeverStaleAgain ==
    [][/\ TimestampFresh'
       /\ IsHealthStep /\ LastHealthCheckEvent # <<>>
             => /\ ~Contains(w'.body, "No health check event received yet")
                /\ ~Contains(w'.body, "older than 5 minutes")]_vars

----------------------------------------------------------------------------
(* Bus connections and heartbeat loops over several Init calls.            *)

\* the Init call of this step has connected to the bus
BusBroughtUp ==
    /\ IsInitStep
    /\ TelemetryConfig'.NatsEnabled
    /\ TelemetryConfig'.NatsConfig.URL # ""
    /\ initArgs'.out.nats

----------------------------------------------------------------------------
(* Probe connections.                                                      *)

\* the probes of the request served last, to the database or to the bus
ProbesTo(target) ==
    {w.probes[k] : k \in {j \in DOMAIN w.probes : w.probes[j].target = target}}

\* C30: every probe connection a health check opens is closed before the
\* check returns, on every path: the database handle when the ping succeeds
\* and when it fails, the bus connection after a successful connect, and a
\* failed connect opens nothing; no probe connection is open between two
\* requests.
C30_ProbesClosed ==
    /\ \A k \in DOMAIN w.probes : w.probes[k].closed = w.probes[k].opened
    /\ \A p \in ProbesTo("mysql") :
          /\ p.opened = (IF req.db = "connect fails" THEN 0 ELSE 1)
          /\ (p.err # <<>>) = (req.db # "ok")
    /\ \A p \in ProbesTo("nats") :
          /\ p.opened = (IF req.bus THEN 1 ELSE 0)
          /\ (p.err # <<>>) = ~req.bus
    /\ Cardinality(ProbesTo("mysql")) <= 1
    /\ Cardinality(ProbesTo("nats")) <= 1

\* A request was served whose database probe connected and failed its
\* ping: the handle was opened and is closed, and the answer is 500.
C30_Witness ==
    /\ w.written
    /\ req.db = "ping fails"
    /\ w.code = 500
    /\ \E p \in ProbesTo("mysql") : p.opened = 1 /\ p.closed = 1 /\ p.err # <<>>

====
